---------------------------- MODULE Spec2Model ----------------------------
(***************************************************************************)
(* Crew legality / compliance / pay engines of crew-mcp.                   *)
(*                                                                         *)
(* Units.  A timestamp is a number of minutes since day 0, a date is a day *)
(* number.  Every quantity the source keeps in hours (rolling totals,      *)
(* ceilings, FDP lengths) is kept here in minutes, i.e. multiplied by 60,  *)
(* so that the comparisons of the source are exact integer comparisons.    *)
(***************************************************************************)
EXTENDS Integers, Sequences, FiniteSets, TLC

VARIABLES
    duty_time_records,   \* table duty_time_records, in row (insertion) order
    now,                 \* the wall clock read by new Date()
    ticks,               \* number of clock advances so far
    faaRules,            \* LegalityValidator.faaRules, loaded by the constructor
    staticRules,         \* RulesEngine.staticRules, loaded by the constructor
    dbRules,             \* RulesEngine.dbRules, as the last load left it
    resp,                \* the outcome of the last operation
    faa_part117_compliance, \* table faa_part117_compliance, in row order
    payLog,              \* the last PayCalculation calculatePay returned
    calls                \* the calculatePay calls in flight on one PayCalculator

\* the state only the compliance run, the pay log and the interleaved
\* calls touch
others == <<faa_part117_compliance, payLog, calls>>

vars == <<duty_time_records, now, ticks, faaRules, staticRules, dbRules, resp,
          faa_part117_compliance, payLog, calls>>

---------------------------------------------------------------------------
(* Bounds of the model *)
MaxRecords == 2          \* rows of duty_time_records
MaxTicks == 1            \* clock advances

---------------------------------------------------------------------------
(* Time *)
MinutesPerDay == 1440

Ts(day, hh, mm) == day * MinutesPerDay + hh * 60 + mm

\* the DATE of a timestamp
DateOf(ts) == ts \div MinutesPerDay

\* hour of day of a timestamp
HourOf(ts) == (ts % MinutesPerDay) \div 60

\* duty_end_utc IS NULL
NoEnd == -1

\* the day the duty rows of the model are dated
BaseDay == DateOf(Ts(400, 0, 0))
E0 == Ts(BaseDay, 20, 0)

---------------------------------------------------------------------------
(* Tables the engines only read *)

crew_members ==
    { [crew_id |-> "u1", employee_number |-> "E1", crew_type |-> "PILOT",
       position |-> "CAPTAIN", status |-> "ACTIVE",
       hire_date |-> BaseDay - 12 * 365, seniority_number |-> 1],
      [crew_id |-> "u2", employee_number |-> "E2", crew_type |-> "PILOT",
       position |-> "FIRST_OFFICER", status |-> "ON_LEAVE",
       hire_date |-> BaseDay - 5 * 365 + 10, seniority_number |-> 2],
      [crew_id |-> "u3", employee_number |-> "E3", crew_type |-> "FLIGHT_ATTENDANT",
       position |-> "FA", status |-> "ACTIVE",
       hire_date |-> BaseDay - 365, seniority_number |-> 3],
      [crew_id |-> "u4", employee_number |-> "E4", crew_type |-> "PILOT",
       position |-> "FIRST_OFFICER", status |-> "ACTIVE",
       hire_date |-> BaseDay - 3 * 365, seniority_number |-> 4] }

\* table pay_calculation_rules, in the order of the query (rule_type, then
\* effective_date descending); "" stands for a NULL position.  The rows of
\* the seed data, and one newer base pay rule for captains that the store
\* received later.  rule_config carries the value the rule sets: a rate in
\* dollars per hour, cents per hour, or a multiplier in percent.
PayRule(name, type, crewType, position, effective, config) ==
    [rule_name |-> name, rule_type |-> type, crew_type |-> crewType,
     position |-> position, effective_date |-> effective, rule_config |-> config]

pay_calculation_rules ==
    << PayRule("Captain Base Pay 2", "BASE_PAY", "PILOT", "CAPTAIN", BaseDay - 30,
               [hourly_rate |-> 275]),
       PayRule("Captain Base Pay", "BASE_PAY", "PILOT", "CAPTAIN", 0,
               [hourly_rate |-> 250]),
       PayRule("First Officer Base Pay", "BASE_PAY", "PILOT", "FIRST_OFFICER", 0,
               [hourly_rate |-> 180]),
       PayRule("Flight Attendant Base Pay", "BASE_PAY", "FLIGHT_ATTENDANT", "FA", 0,
               [hourly_rate |-> 45]),
       PayRule("Lead FA Base Pay", "BASE_PAY", "FLIGHT_ATTENDANT", "LEAD_FA", 0,
               [hourly_rate |-> 52]),
       PayRule("Overtime Rate", "OVERTIME", "ALL", "", 0,
               [threshold_hours |-> 85, rate_multiplier |-> 150]),
       PayRule("Domestic Per Diem", "PER_DIEM", "ALL", "", 0,
               [rate_per_hour |-> 250]),
       PayRule("Night Flying Premium", "PREMIUM", "PILOT", "", 0,
               [rate_multiplier |-> 150]),
       PayRule("Holiday Premium", "PREMIUM", "ALL", "", 0,
               [rate_multiplier |-> 200]) >>

aircraft_type_ratings ==
    { [crew_id |-> "u1", aircraft_type |-> "B737-800", currency_status |-> "CURRENT"],
      [crew_id |-> "u1", aircraft_type |-> "A320", currency_status |-> "EXPIRED"],
      [crew_id |-> "u2", aircraft_type |-> "B737-800", currency_status |-> "CURRENT"] }

medical_certificates ==
    { [crew_id |-> "u1", status |-> "VALID"],
      [crew_id |-> "u2", status |-> "EXPIRED"] }

recurrent_training ==
    { [crew_id |-> "u1", status |-> "CURRENT"],
      [crew_id |-> "u2", status |-> "OVERDUE"],
      [crew_id |-> "u2", status |-> "DUE_SOON"] }

\* crew_id is a UUID column: comparing it with a text that is not a UUID
\* makes the query fail
IsUUID(id) == id \in {"u1", "u2", "u3", "u4", "u9"}

\* identifiers a caller may pass: employee numbers, crew ids, unknown ones
Identifiers == {"E1", "u1", "E2", "u2", "X9"}

---------------------------------------------------------------------------
(* db/queries.ts *)

\* rows of crew_members matching the identifier (at most one)
getCrewMember(identifier) ==
    { c \in crew_members : c.employee_number = identifier \/ c.crew_id = identifier }

getAllCrewMembers(filterType, filterStatus) ==
    { c \in crew_members :
        /\ (filterType # "" => c.crew_type = filterType)
        /\ (filterStatus # "" => c.status = filterStatus) }

\* ORDER BY seniority_number
RECURSIVE bySeniority(_)
bySeniority(rows) ==
    IF rows = {} THEN << >>
    ELSE LET first == CHOOSE c \in rows :
                          \A d \in rows : c.seniority_number <= d.seniority_number
         IN << first >> \o bySeniority(rows \ {first})

getAircraftTypeRatings(crewId) ==
    { r \in aircraft_type_ratings : r.crew_id = crewId }

\* the rows of the LIMIT 1 query: empty when there is no certificate
getMedicalCertificate(crewId) ==
    { m \in medical_certificates : m.crew_id = crewId }

getTrainingRecords(crewId) ==
    { t \in recurrent_training : t.crew_id = crewId }

getDutyTimeRecords(crewId, startDate, endDate) ==
    SelectSeq(duty_time_records,
              LAMBDA r : /\ r.crew_id = crewId
                         /\ r.duty_date >= DateOf(startDate)
                         /\ r.duty_date <= DateOf(endDate))

RECURSIVE SumFlightMinutes(_)
SumFlightMinutes(rows) ==
    IF rows = <<>> THEN 0
    ELSE Head(rows).flight_time_minutes + SumFlightMinutes(Tail(rows))

\* a faulty variant: the WHERE clause forgets duty_date <= asOfDate
calculateRollingHoursOpenEnded(crewId, asOfDate) ==
    LET d == DateOf(asOfDate)
        rows == SelectSeq(duty_time_records, LAMBDA r : r.crew_id = crewId)
    IN [rolling_28_day |->
            SumFlightMinutes(SelectSeq(rows, LAMBDA r : r.duty_date >= d - 28)),
        rolling_365_day |->
            SumFlightMinutes(SelectSeq(rows, LAMBDA r : r.duty_date >= d - 365))]

\* both totals in minutes (hours * 60)
calculateRollingHours(crewId, asOfDate) ==
    LET d == DateOf(asOfDate)
        rows == SelectSeq(duty_time_records,
                          LAMBDA r : r.crew_id = crewId /\ r.duty_date <= d)
    IN [rolling_28_day |->
            SumFlightMinutes(SelectSeq(rows, LAMBDA r : r.duty_date >= d - 28)),
        rolling_365_day |->
            SumFlightMinutes(SelectSeq(rows, LAMBDA r : r.duty_date >= d - 365))]

upsertDutyTimeRecord(record) == Append(duty_time_records, record)

\* the active rules of a crew type and position in force at effectiveDate
getPayCalculationRules(crewType, position, effectiveDate) ==
    SelectSeq(pay_calculation_rules,
              LAMBDA r : /\ (r.crew_type = crewType \/ r.crew_type = "ALL")
                         /\ (r.position = position \/ r.position = "")
                         /\ r.effective_date <= DateOf(effectiveDate))

---------------------------------------------------------------------------
(* engines/compliance-checker.ts *)

limit28Day == 100
limit365Day == 1000

\* hours -> the unit of the rolling totals
Hours(h) == h * 60

\* limit * pct/100 hours, in the unit of the rolling totals
PercentOf(limitHours, pct) == (Hours(limitHours) * pct) \div 100

alert28Day(total) ==
    IF total >= Hours(limit28Day)
    THEN << [window |-> 28, alert_type |-> "LIMIT_EXCEEDED", severity |-> "CRITICAL",
             current_value |-> total, limit_value |-> limit28Day] >>
    ELSE IF total >= PercentOf(limit28Day, 95)
    THEN << [window |-> 28, alert_type |-> "APPROACHING_LIMIT", severity |-> "HIGH",
             current_value |-> total, limit_value |-> limit28Day] >>
    ELSE IF total >= PercentOf(limit28Day, 90)
    THEN << [window |-> 28, alert_type |-> "APPROACHING_LIMIT", severity |-> "MEDIUM",
             current_value |-> total, limit_value |-> limit28Day] >>
    ELSE << >>

alert365Day(total) ==
    IF total >= Hours(limit365Day)
    THEN << [window |-> 365, alert_type |-> "LIMIT_EXCEEDED", severity |-> "CRITICAL",
             current_value |-> total, limit_value |-> limit365Day] >>
    ELSE IF total >= PercentOf(limit365Day, 95)
    THEN << [window |-> 365, alert_type |-> "APPROACHING_LIMIT", severity |-> "HIGH",
             current_value |-> total, limit_value |-> limit365Day] >>
    ELSE IF total >= PercentOf(limit365Day, 90)
    THEN << [window |-> 365, alert_type |-> "APPROACHING_LIMIT", severity |-> "MEDIUM",
             current_value |-> total, limit_value |-> limit365Day] >>
    ELSE << >>

\* the alerts returned for crewId as of checkDate
checkCrewCompliance(crewId, checkDate) ==
    LET crew == getAllCrewMembers("", "ACTIVE")
        rolling == calculateRollingHours(crewId, checkDate)
    IN IF ~ \E c \in crew : c.crew_id = crewId
       THEN << >>
       ELSE alert28Day(rolling.rolling_28_day) \o alert365Day(rolling.rolling_365_day)

\* a faulty variant: a projected total equal to its ceiling is refused
isClearForAssignmentAtCeiling(crewId, proposedFlightHours, clock) ==
    LET rolling == calculateRollingHours(crewId, clock)
        projected28Day == rolling.rolling_28_day + proposedFlightHours
        projected365Day == rolling.rolling_365_day + proposedFlightHours
    IN IF projected28Day >= Hours(100)
       THEN [is_clear |-> FALSE, reason |-> "28-day limit", projected |-> projected28Day]
       ELSE IF projected365Day >= Hours(1000)
       THEN [is_clear |-> FALSE, reason |-> "365-day limit", projected |-> projected365Day]
       ELSE [is_clear |-> TRUE, reason |-> "", projected |-> 0]

\* proposedFlightHours is given in minutes (hours * 60)
isClearForAssignment(crewId, proposedFlightHours, clock) ==
    LET rolling == calculateRollingHours(crewId, clock)
        projected28Day == rolling.rolling_28_day + proposedFlightHours
        projected365Day == rolling.rolling_365_day + proposedFlightHours
    IN IF projected28Day > Hours(100)
       THEN [is_clear |-> FALSE, reason |-> "28-day limit", projected |-> projected28Day]
       ELSE IF projected365Day > Hours(1000)
       THEN [is_clear |-> FALSE, reason |-> "365-day limit", projected |-> projected365Day]
       ELSE [is_clear |-> TRUE, reason |-> "", projected |-> 0]

\* what a call checkCrewCompliance(crewId, checkDate) does when the read
\* failedRead is rejected; the rolling hours are read for ACTIVE crew only
checkCrewComplianceAttempt(crewId, checkDate, failedRead) ==
    IF failedRead = "getAllCrewMembers" THEN [status |-> "error", error |-> "ReadFailure"]
    ELSE IF /\ failedRead = "calculateRollingHours"
            /\ \E c \in getAllCrewMembers("", "ACTIVE") : c.crew_id = crewId
    THEN [status |-> "error", error |-> "ReadFailure"]
    ELSE [status |-> "ok", alerts |-> checkCrewCompliance(crewId, checkDate)]

\* what a call isClearForAssignment(crewId, proposedFlightHours) does when
\* the read failedRead is rejected; a crewId that is no UUID fails the query
isClearForAssignmentAttempt(crewId, proposedFlightHours, clock, failedRead) ==
    IF failedRead = "calculateRollingHours"
    THEN [status |-> "error", error |-> "ReadFailure"]
    ELSE IF ~IsUUID(crewId) THEN [status |-> "error", error |-> "QueryError"]
    ELSE [status |-> "ok",
          result |-> isClearForAssignment(crewId, proposedFlightHours, clock)]

\* the row recordCompliance inserts for crewId
recordCompliance(crewId, checkDate) ==
    LET rolling == calculateRollingHours(crewId, checkDate)
    IN [crew_id |-> crewId,
        check_date |-> DateOf(checkDate),
        rolling_28_day_hours |-> rolling.rolling_28_day,
        rolling_365_day_hours |-> rolling.rolling_365_day,
        consecutive_duty_days |-> 0,
        rest_compliance |-> rolling.rolling_28_day < Hours(100),
        fdp_compliance |-> rolling.rolling_365_day < Hours(1000)]

\* the alerts of one pilot, each carrying the pilot's crew_id
pilotAlertsOf(pilot, date) ==
    LET a == checkCrewCompliance(pilot.crew_id, date)
    IN [i \in 1..Len(a) |-> [crew_id |-> pilot.crew_id, alert |-> a[i]]]

\* a faulty variant: the first failure ends the run
RECURSIVE checkAllCrewUntilFailure(_, _, _)
checkAllCrewUntilFailure(pilots, date, failures) ==
    IF pilots = << >> \/ Head(failures) # "none"
    THEN [alerts |-> << >>, recorded |-> << >>]
    ELSE LET rest == checkAllCrewUntilFailure(Tail(pilots), date, Tail(failures))
         IN [alerts |-> pilotAlertsOf(Head(pilots), date) \o rest.alerts,
             recorded |-> << recordCompliance(Head(pilots).crew_id, date) >>
                          \o rest.recorded]

\* the loop of checkAllCrew over the pilots.  failures[i] tells what fails
\* for the i-th pilot: "check" a read of checkCrewCompliance (caught by the
\* loop), "record" the read or the insert of recordCompliance (caught by
\* recordCompliance itself), "none" nothing.
RECURSIVE checkAllCrew(_, _, _)
checkAllCrew(pilots, date, failures) ==
    IF pilots = << >>
    THEN [alerts |-> << >>, recorded |-> << >>]
    ELSE LET rest == checkAllCrew(Tail(pilots), date, Tail(failures))
             pilotAlerts == pilotAlertsOf(Head(pilots), date)
         IN CASE Head(failures) = "check" -> rest
              [] Head(failures) = "record" ->
                    [alerts |-> pilotAlerts \o rest.alerts, recorded |-> rest.recorded]
              [] OTHER ->
                    [alerts |-> pilotAlerts \o rest.alerts,
                     recorded |-> << recordCompliance(Head(pilots).crew_id, date) >>
                                  \o rest.recorded]

---------------------------------------------------------------------------
(* rules/faa-part117-rules.json, as loadFAARules() returns it *)

SegmentBuckets ==
    {"2_segments", "3_segments", "4_segments", "5_segments", "6_segments",
     "7_plus_segments"}

TimeBuckets ==
    {"0000-0459", "0500-0559", "0600-0659", "0700-1259", "1300-1659",
     "1700-2159", "2200-2259", "2300-2359"}

\* maximum FDP in minutes by report time, for 1-2 segments
FDPBaseMinutes(timeBucket) ==
    CASE timeBucket = "0000-0459" -> 540
      [] timeBucket = "0500-0559" -> 720
      [] timeBucket = "0600-0659" -> 780
      [] timeBucket = "0700-1259" -> 840
      [] timeBucket = "1300-1659" -> 720
      [] timeBucket = "1700-2159" -> 720
      [] timeBucket = "2200-2259" -> 660
      [] OTHER -> 600

\* minutes taken off the maximum for the additional segments
FDPSegmentCut(segmentBucket) ==
    CASE segmentBucket = "2_segments" -> 0
      [] segmentBucket = "3_segments" -> 0
      [] segmentBucket = "4_segments" -> 30
      [] segmentBucket = "5_segments" -> 60
      [] segmentBucket = "6_segments" -> 90
      [] OTHER -> 120

\* fdp_limits.unaugmented.limits_by_segments_and_start_time, in minutes
FullFDPTable ==
    [cell \in SegmentBuckets \X TimeBuckets |->
        FDPBaseMinutes(cell[2]) - FDPSegmentCut(cell[1])]

\* the table restricted to some of its cells
RestrictFDPTable(cells) == [cell \in cells |-> FullFDPTable[cell]]

FAARules(fdpTable) ==
    [loaded |-> TRUE,
     fdp_limits |-> fdpTable,
     rolling_28_day_limit_hours |-> 100,
     rolling_365_day_limit_hours |-> 1000]

\* no table: loadFAARules() threw and the constructor of LegalityValidator
\* with it
NoFAARules == [loaded |-> FALSE]

---------------------------------------------------------------------------
(* engines/legality-validator.ts *)

\* Number.POSITIVE_INFINITY
Infinity == 1000000000

\* Math.trunc(a / b) for b > 0
Trunc(a, b) == IF a >= 0 THEN a \div b ELSE -((-a) \div b)

\* date-fns differenceInHours of two timestamps
differenceInHours(later, earlier) == Trunc(later - earlier, 60)

checkQualifications(crewId, aircraftType) ==
    LET typeRatings == getAircraftTypeRatings(crewId)
        hasRating == \E r \in typeRatings :
                        r.aircraft_type = aircraftType /\ r.currency_status = "CURRENT"
        medical == getMedicalCertificate(crewId)
        overdueTraining == { t \in getTrainingRecords(crewId) : t.status = "OVERDUE" }
    IN  (IF ~hasRating THEN << [type |-> "AIRCRAFT_TYPE_RATING", severity |-> "CRITICAL"] >>
         ELSE << >>)
     \o (IF medical = {} \/ \E m \in medical : m.status # "VALID"
         THEN << [type |-> "MEDICAL_CERTIFICATE", severity |-> "CRITICAL"] >>
         ELSE << >>)
     \o (IF Cardinality(overdueTraining) > 0
         THEN << [type |-> "TRAINING", severity |-> "HIGH"] >>
         ELSE << >>)

\* the comparator of the sort reads duty_end_utc.getTime() of both of its
\* arguments; it is called as soon as there are two rows to order
SortThrows(dutyHistory) ==
    /\ Len(dutyHistory) >= 2
    /\ \E i \in 1..Len(dutyHistory) : dutyHistory[i].duty_end_utc = NoEnd

\* the rows that may come first after the descending sort on duty_end_utc:
\* the sort is stable and the query orders by duty_date only
FirstAfterSort(dutyHistory) ==
    LET idx == 1..Len(dutyHistory)
        latest == { i \in idx : \A j \in idx :
                        dutyHistory[j].duty_end_utc <= dutyHistory[i].duty_end_utc }
    IN { i \in latest : \A j \in latest :
            dutyHistory[i].duty_date <= dutyHistory[j].duty_date }

\* a faulty variant: the rest tiers of calculateMinimumRest in date-utils.ts
\* (under 9h -> 10, up to 13h -> 12, above -> 14) instead of the validator's
checkRestComplianceOtherTiers(dutyHistory, proposedDuty, lastDuty) ==
    IF Len(dutyHistory) = 0
    THEN [is_compliant |-> TRUE, hours_since_rest |-> Infinity,
          minimum_rest_required |-> 0, violations |-> << >>]
    ELSE IF lastDuty.duty_end_utc = NoEnd
    THEN [is_compliant |-> FALSE, hours_since_rest |-> 0,
          minimum_rest_required |-> 10,
          violations |-> << [text |-> "Previous duty has no end time recorded"] >>]
    ELSE
      LET hoursSinceRest ==
              differenceInHours(proposedDuty.duty_start_utc, lastDuty.duty_end_utc)
          minimumRestRequired ==
              IF lastDuty.duty_time_minutes < 9 * 60 THEN 10
              ELSE IF lastDuty.duty_time_minutes <= 13 * 60 THEN 12
              ELSE 14
          is_compliant == hoursSinceRest >= minimumRestRequired
      IN [is_compliant |-> is_compliant,
          hours_since_rest |-> hoursSinceRest,
          minimum_rest_required |-> minimumRestRequired,
          violations |->
              IF ~is_compliant
              THEN << [text |-> "Only X hours rest since last duty (requires N hours)",
                       X |-> hoursSinceRest, N |-> minimumRestRequired] >>
              ELSE << >>]

\* lastDuty is sortedHistory[0]
checkRestCompliance(dutyHistory, proposedDuty, lastDuty) ==
    IF Len(dutyHistory) = 0
    THEN [is_compliant |-> TRUE, hours_since_rest |-> Infinity,
          minimum_rest_required |-> 0, violations |-> << >>]
    ELSE IF lastDuty.duty_end_utc = NoEnd
    THEN [is_compliant |-> FALSE, hours_since_rest |-> 0,
          minimum_rest_required |-> 10,
          violations |-> << [text |-> "Previous duty has no end time recorded"] >>]
    ELSE
      LET hoursSinceRest ==
              differenceInHours(proposedDuty.duty_start_utc, lastDuty.duty_end_utc)
          \* previousFDPHours = duty_time_minutes / 60
          minimumRestRequired ==
              IF lastDuty.duty_time_minutes <= 9 * 60 THEN 10
              ELSE IF lastDuty.duty_time_minutes <= 13 * 60 THEN 11
              ELSE 12
          is_compliant == hoursSinceRest >= minimumRestRequired
      IN [is_compliant |-> is_compliant,
          hours_since_rest |-> hoursSinceRest,
          minimum_rest_required |-> minimumRestRequired,
          violations |->
              IF ~is_compliant
              THEN << [text |-> "Only X hours rest since last duty (requires N hours)",
                       X |-> hoursSinceRest, N |-> minimumRestRequired] >>
              ELSE << >>]

segmentBucketOf(segments) ==
    IF segments <= 2 THEN "2_segments"
    ELSE IF segments = 3 THEN "3_segments"
    ELSE IF segments = 4 THEN "4_segments"
    ELSE IF segments = 5 THEN "5_segments"
    ELSE IF segments = 6 THEN "6_segments"
    ELSE "7_plus_segments"

\* a faulty variant: the first bucket runs one hour too long
timeBucketOfLateBoundary(reportHour) ==
    IF reportHour >= 0 /\ reportHour <= 5 THEN "0000-0459"
    ELSE IF reportHour = 6 THEN "0600-0659"
    ELSE IF reportHour >= 7 /\ reportHour <= 12 THEN "0700-1259"
    ELSE IF reportHour >= 13 /\ reportHour <= 16 THEN "1300-1659"
    ELSE IF reportHour >= 17 /\ reportHour <= 21 THEN "1700-2159"
    ELSE IF reportHour = 22 THEN "2200-2259"
    ELSE "2300-2359"

timeBucketOf(reportHour) ==
    IF reportHour >= 0 /\ reportHour <= 4 THEN "0000-0459"
    ELSE IF reportHour = 5 THEN "0500-0559"
    ELSE IF reportHour = 6 THEN "0600-0659"
    ELSE IF reportHour >= 7 /\ reportHour <= 12 THEN "0700-1259"
    ELSE IF reportHour >= 13 /\ reportHour <= 16 THEN "1300-1659"
    ELSE IF reportHour >= 17 /\ reportHour <= 21 THEN "1700-2159"
    ELSE IF reportHour = 22 THEN "2200-2259"
    ELSE "2300-2359"

\* FDP lengths in minutes
checkFDPLimits(rules, proposedDuty) ==
    LET dutyStart == proposedDuty.duty_start_utc
        dutyEnd == IF proposedDuty.duty_end_utc # NoEnd
                   THEN proposedDuty.duty_end_utc
                   ELSE dutyStart + (IF proposedDuty.flight_time_minutes # 0
                                     THEN proposedDuty.flight_time_minutes
                                     ELSE 360)
        proposedFDPHours == dutyEnd - dutyStart
        reportHour == HourOf(dutyStart)
        segments == IF proposedDuty.number_of_segments # 0
                    THEN proposedDuty.number_of_segments ELSE 1
        segmentBucket == segmentBucketOf(segments)
        timeBucket == timeBucketOf(reportHour)
        cell == <<segmentBucket, timeBucket>>
        maxFDPHours == IF cell \in DOMAIN rules.fdp_limits /\ rules.fdp_limits[cell] # 0
                       THEN rules.fdp_limits[cell]
                       ELSE 9 * 60
        is_compliant == proposedFDPHours <= maxFDPHours
    IN [is_compliant |-> is_compliant,
        max_fdp_hours |-> maxFDPHours,
        proposed_fdp_hours |-> proposedFDPHours,
        segment_bucket |-> segmentBucket,
        time_bucket |-> timeBucket,
        violations |->
            IF ~is_compliant
            THEN << [text |-> "Proposed FDP exceeds limit",
                     segments |-> segments, reportHour |-> reportHour] >>
            ELSE << >>]

\* the duty dates (as timestamps of midnight) in descending order
RECURSIVE InsertDesc(_, _)
InsertDesc(x, sorted) ==
    IF sorted = << >> THEN << x >>
    ELSE IF x >= Head(sorted) THEN << x >> \o sorted
    ELSE << Head(sorted) >> \o InsertDesc(x, Tail(sorted))

RECURSIVE SortDesc(_)
SortDesc(xs) == IF xs = << >> THEN << >> ELSE InsertDesc(Head(xs), SortDesc(Tail(xs)))

RECURSIVE CountRun(_, _)
CountRun(currentDate, rest) ==
    IF rest = << >> THEN 0
    ELSE IF (currentDate - Head(rest)) \div MinutesPerDay = 1
         THEN 1 + CountRun(Head(rest), Tail(rest))
         ELSE 0

countConsecutiveDutyDays(dutyHistory, asOfDate) ==
    LET before == SelectSeq(dutyHistory,
                            LAMBDA d : d.duty_date * MinutesPerDay < asOfDate)
        sortedHistory ==
            SortDesc([i \in 1..Len(before) |-> before[i].duty_date * MinutesPerDay])
    IN IF Len(sortedHistory) = 0 THEN 0
       ELSE 1 + CountRun(Head(sortedHistory), Tail(sortedHistory))

\* a faulty variant: the proposed flight time is not added to the totals
checkFlightTimeLimitsRecordedOnly(rules, crewId, proposedDuty, dutyHistory) ==
    LET dutyDate == proposedDuty.duty_start_utc
        rolling == calculateRollingHours(crewId, dutyDate)
    IN [rolling_28_day_hours |-> rolling.rolling_28_day,
        rolling_28_day_limit |-> rules.rolling_28_day_limit_hours,
        rolling_365_day_hours |-> rolling.rolling_365_day,
        rolling_365_day_limit |-> rules.rolling_365_day_limit_hours,
        consecutive_duty_days |-> countConsecutiveDutyDays(dutyHistory, dutyDate)]

\* rolling totals in minutes, limits in hours as the rule table gives them
checkFlightTimeLimits(rules, crewId, proposedDuty, dutyHistory) ==
    LET dutyDate == proposedDuty.duty_start_utc
        rolling == calculateRollingHours(crewId, dutyDate)
        proposedFlightHours == proposedDuty.flight_time_minutes
    IN [rolling_28_day_hours |-> rolling.rolling_28_day + proposedFlightHours,
        rolling_28_day_limit |-> rules.rolling_28_day_limit_hours,
        rolling_365_day_hours |-> rolling.rolling_365_day + proposedFlightHours,
        rolling_365_day_limit |-> rules.rolling_365_day_limit_hours,
        consecutive_duty_days |-> countConsecutiveDutyDays(dutyHistory, dutyDate)]

generateRecommendations(qualificationIssues, restCompliance, fdpCompliance, dutyLimits) ==
    LET recommendations ==
            (IF Len(qualificationIssues) > 0
             THEN << [text |-> "Address N qualification issue(s) before assignment",
                      N |-> Len(qualificationIssues)] >>
             ELSE << >>)
         \o (IF ~restCompliance.is_compliant
             THEN << [text |-> "Crew needs N more hours of rest before assignment",
                      N |-> restCompliance.minimum_rest_required
                            - restCompliance.hours_since_rest] >>
             ELSE << >>)
         \o (IF ~fdpCompliance.is_compliant
             THEN << [text |-> "Reduce FDP by N hours or adjust start time",
                      N |-> fdpCompliance.proposed_fdp_hours
                            - fdpCompliance.max_fdp_hours] >>
             ELSE << >>)
         \o (IF dutyLimits.rolling_28_day_hours * 10
                    > Hours(dutyLimits.rolling_28_day_limit) * 9
             THEN << [text |-> "Approaching 28-day limit",
                      N |-> dutyLimits.rolling_28_day_hours] >>
             ELSE << >>)
         \o (IF dutyLimits.rolling_365_day_hours * 10
                    > Hours(dutyLimits.rolling_365_day_limit) * 9
             THEN << [text |-> "Approaching 365-day limit",
                      N |-> dutyLimits.rolling_365_day_hours] >>
             ELSE << >>)
         \o (IF dutyLimits.consecutive_duty_days >= 6
             THEN << [text |-> "N consecutive duty days - schedule rest day soon",
                      N |-> dutyLimits.consecutive_duty_days] >>
             ELSE << >>)
    IN IF Len(recommendations) = 0
       THEN << [text |-> "Crew member is legal and qualified for this assignment",
                N |-> 0] >>
       ELSE recommendations

\* a faulty variant: a projected total equal to its ceiling is illegal
isLegalBelowCeiling(qualificationIssues, restCompliance, fdpCompliance, dutyLimits) ==
    /\ Len(qualificationIssues) = 0
    /\ restCompliance.is_compliant
    /\ fdpCompliance.is_compliant
    /\ dutyLimits.rolling_28_day_hours < Hours(dutyLimits.rolling_28_day_limit)
    /\ dutyLimits.rolling_365_day_hours < Hours(dutyLimits.rolling_365_day_limit)

\* step 7 of validateAssignment
isLegal(qualificationIssues, restCompliance, fdpCompliance, dutyLimits) ==
    /\ Len(qualificationIssues) = 0
    /\ restCompliance.is_compliant
    /\ fdpCompliance.is_compliant
    /\ dutyLimits.rolling_28_day_hours <= Hours(dutyLimits.rolling_28_day_limit)
    /\ dutyLimits.rolling_365_day_hours <= Hours(dutyLimits.rolling_365_day_limit)

\* the rows validateAssignment reads as duty history
dutyHistoryOf(uuid, proposedDuty) ==
    getDutyTimeRecords(uuid,
                       proposedDuty.duty_start_utc - 365 * MinutesPerDay,
                       proposedDuty.duty_start_utc)

\* the LegalityResult for a crew member that was found, when the sort did
\* not throw; lastDuty is the row the sort put first (any row when the
\* history is empty)
validateAssignment(rules, crewMember, proposedDuty, lastDuty) ==
    LET uuid == crewMember.crew_id
        qualificationIssues == checkQualifications(uuid, proposedDuty.aircraft_type)
        dutyHistory == dutyHistoryOf(uuid, proposedDuty)
        restCompliance == checkRestCompliance(dutyHistory, proposedDuty, lastDuty)
        fdpCompliance == checkFDPLimits(rules, proposedDuty)
        dutyLimits == checkFlightTimeLimits(rules, uuid, proposedDuty, dutyHistory)
    IN [is_legal |-> isLegal(qualificationIssues, restCompliance, fdpCompliance,
                             dutyLimits),
        crew_status |-> IF Len(qualificationIssues) = 0
                        THEN "QUALIFIED" ELSE "NOT_QUALIFIED",
        qualification_issues |-> qualificationIssues,
        rest_compliance |-> restCompliance,
        duty_limits |-> dutyLimits,
        recommendations |-> generateRecommendations(qualificationIssues,
                                restCompliance, fdpCompliance, dutyLimits)]

\* what a call validateAssignment(crewId, proposedDuty) can do
validateAssignmentOutcomes(rules, crewId, proposedDuty) ==
    LET found == getCrewMember(crewId)
        crewMember == CHOOSE c \in found : TRUE
        dutyHistory == dutyHistoryOf(crewMember.crew_id, proposedDuty)
    IN IF found = {}
       THEN { [status |-> "error", error |-> "Crew member not found"] }
       ELSE IF SortThrows(dutyHistory)
       THEN { [status |-> "error", error |-> "TypeError"] }
       ELSE IF Len(dutyHistory) = 0
       THEN { [status |-> "ok",
               result |-> validateAssignment(rules, crewMember, proposedDuty,
                                             [duty_end_utc |-> NoEnd])] }
       ELSE { [status |-> "ok",
               result |-> validateAssignment(rules, crewMember, proposedDuty,
                                             dutyHistory[i])] :
              i \in FirstAfterSort(dutyHistory) }

\* a read of the store that was rejected
ReadFailure == [status |-> "error", error |-> "ReadFailure"]

\* what a call validateAssignment(crewId, proposedDuty) can do when the read
\* failedRead is rejected ("none": every read succeeds).  The reads are made
\* in the order getCrewMember, getAircraftTypeRatings, getMedicalCertificate,
\* getTrainingRecords, getDutyTimeRecords, calculateRollingHours; a read
\* that is not reached cannot fail.
validateAssignmentAttempt(rules, crewId, proposedDuty, failedRead) ==
    LET found == getCrewMember(crewId)
        crewMember == CHOOSE c \in found : TRUE
        dutyHistory == dutyHistoryOf(crewMember.crew_id, proposedDuty)
    IN IF failedRead = "getCrewMember" THEN { ReadFailure }
       ELSE IF found = {} THEN validateAssignmentOutcomes(rules, crewId, proposedDuty)
       ELSE IF failedRead \in {"getAircraftTypeRatings", "getMedicalCertificate",
                              "getTrainingRecords", "getDutyTimeRecords"}
       THEN { ReadFailure }
       ELSE IF SortThrows(dutyHistory)
       THEN validateAssignmentOutcomes(rules, crewId, proposedDuty)
       ELSE IF failedRead = "calculateRollingHours" THEN { ReadFailure }
       ELSE validateAssignmentOutcomes(rules, crewId, proposedDuty)

\* a faulty variant: the first failure ends the loop
validateCrewPoolAbortOnFailure(crewIds, evaluations) ==
    LET done == { i \in 1..Len(crewIds) :
                    \A j \in 1..i : evaluations[j].status = "ok" }
    IN [crewId \in { crewIds[i] : i \in done } |->
           evaluations[CHOOSE i \in done :
                          /\ crewIds[i] = crewId
                          /\ \A j \in done : crewIds[j] = crewId => j <= i].result]

\* the Map validateCrewPool returns, as a function of the crew ids set;
\* evaluations[i] is what validateAssignment(crewIds[i], proposedDuty) did,
\* a later result for the same crew id replaces an earlier one
validateCrewPool(crewIds, evaluations) ==
    LET set == { i \in 1..Len(crewIds) : evaluations[i].status = "ok" }
    IN [crewId \in { crewIds[i] : i \in set } |->
           evaluations[CHOOSE i \in set :
                          /\ crewIds[i] = crewId
                          /\ \A j \in set : crewIds[j] = crewId => j <= i].result]

---------------------------------------------------------------------------
(* rules/pay-calculation-rules.json, as loadStaticRules() returns it.
   Money is counted in units of 1/6000 dollar, so that minutes times a rate
   per hour, half rates and percentages are all whole numbers (base pay is
   a whole number of hundreds of units). *)

UnitsPerDollar == 60 * 100

Dollars(d) == d * UnitsPerDollar

\* max_years of the last longevity tier (null)
NoMaxYears == NoEnd

\* the table when the file was read; rates in dollars per hour, the per
\* diem rate in cents per hour, multipliers in percent
PayRules ==
    [loaded |-> TRUE,
     pilot_base_pay |->
        [positions |-> [pos \in {"CAPTAIN", "FIRST_OFFICER"} |->
                           [hourly_rate |-> IF pos = "CAPTAIN" THEN 250 ELSE 180]]],
     flight_attendant_base_pay |->
        [positions |-> [pos \in {"LEAD_FA"} |-> [hourly_rate |-> 52]]],
     per_diem |-> [rate_per_hour |-> 250, minimum_hours |-> 4],
     premium_pay |->
        [night_flying |-> [rate_multiplier |-> 150, applies_to |-> {"PILOT"}],
         holiday |-> [rate_multiplier |-> 200],
         international |-> [flat_amount |-> 100]],
     longevity_pay |->
        [tiers |-> << [min_years |-> 0, max_years |-> 4, percentage_increase |-> 0],
                      [min_years |-> 5, max_years |-> 9, percentage_increase |-> 5],
                      [min_years |-> 10, max_years |-> NoMaxYears,
                       percentage_increase |-> 10] >>],
     overtime |-> [threshold_hours |-> 85, rate_multiplier |-> 150],
     guarantee |->
        [positions |-> [pos \in {"CAPTAIN", "FIRST_OFFICER"} |->
                           [guaranteed_amount |-> IF pos = "CAPTAIN" THEN 18750
                                                  ELSE 13500,
                            guaranteed_hours |-> 75]]]]

\* the table when reading the file failed: loadStaticRules() returns {}
NoPayRules == [loaded |-> FALSE]

---------------------------------------------------------------------------
(* engines/rules-engine.ts.  A PayContext holds flightHours, dutyHours and
   nightHours in minutes. *)

RuleApplication(ruleName, ruleType, amount) ==
    [ruleName |-> ruleName, ruleType |-> ruleType, amount |-> amount]

basePayKey(crewMember) ==
    IF crewMember.crew_type = "PILOT" THEN "pilot_base_pay"
    ELSE "flight_attendant_base_pay"

\* whether the table holds rates for the position of the crew member
hasPositionRates(rules, crewMember) ==
    /\ rules.loaded
    /\ crewMember.position \in DOMAIN rules[basePayKey(crewMember)].positions

\* dollars per hour, 0 when no rate is configured
getBasePayRate(rules, crewMember) ==
    IF hasPositionRates(rules, crewMember)
    THEN rules[basePayKey(crewMember)].positions[crewMember.position].hourly_rate
    ELSE 0

calculateBasePay(rules, context) ==
    IF ~hasPositionRates(rules, context.crewMember)
    THEN RuleApplication("Base Pay", "BASE_PAY", 0)
    ELSE RuleApplication("Base Pay", "BASE_PAY",
             context.flightHours * getBasePayRate(rules, context.crewMember) * 100)

calculatePerDiem(rules, context) ==
    LET \* rate_per_hour || 2.5 and minimum_hours || 4
        domesticRate == IF rules.loaded THEN rules.per_diem.rate_per_hour ELSE 250
        minimumHours == IF rules.loaded THEN rules.per_diem.minimum_hours ELSE 4
    IN IF context.dutyHours < minimumHours * 60
       THEN RuleApplication("Per Diem", "PER_DIEM", 0)
       ELSE RuleApplication("Per Diem", "PER_DIEM", context.dutyHours * domesticRate)

appliesToCrewType(rule, crewMember) ==
    \/ "ALL" \in rule.applies_to
    \/ crewMember.crew_type \in rule.applies_to

RECURSIVE getLongevityTier(_, _)
\* the first tier holding yearsOfService, << >> when there is none
getLongevityTier(yearsOfService, tiers) ==
    IF tiers = << >> THEN << >>
    ELSE LET tier == Head(tiers)
         IN IF \/ (tier.max_years = NoMaxYears /\ yearsOfService >= tier.min_years)
               \/ (/\ tier.max_years # NoMaxYears
                   /\ yearsOfService >= tier.min_years
                   /\ yearsOfService <= tier.max_years)
            THEN << tier >>
            ELSE getLongevityTier(yearsOfService, Tail(tiers))

calculatePremiumPay(rules, context) ==
    IF ~rules.loaded THEN << >>
    ELSE
      LET premiumRules == rules.premium_pay
          basePayRate == getBasePayRate(rules, context.crewMember)
          tier == getLongevityTier(context.yearsOfService, rules.longevity_pay.tiers)
      IN (IF /\ context.nightHours > 0
             /\ appliesToCrewType(premiumRules.night_flying, context.crewMember)
          THEN << RuleApplication("Night Flying Premium", "PREMIUM",
                      context.nightHours * basePayRate
                          * (premiumRules.night_flying.rate_multiplier - 100)) >>
          ELSE << >>)
      \o (IF context.holidayHours > 0
          THEN << RuleApplication("Holiday Premium", "PREMIUM",
                      context.holidayHours * basePayRate
                          * (premiumRules.holiday.rate_multiplier - 100)) >>
          ELSE << >>)
      \o (IF context.internationalTrips > 0
          THEN << RuleApplication("International Premium", "PREMIUM",
                      context.internationalTrips
                          * Dollars(premiumRules.international.flat_amount)) >>
          ELSE << >>)
      \o (IF tier # << >> /\ tier[1].percentage_increase > 0
          THEN << RuleApplication("Longevity Pay", "PREMIUM",
                      (calculateBasePay(rules, context).amount \div 100)
                          * tier[1].percentage_increase) >>
          ELSE << >>)

calculateOvertimePay(rules, context) ==
    IF ~rules.loaded THEN RuleApplication("Overtime", "OVERTIME", 0)
    ELSE
      LET threshold == rules.overtime.threshold_hours
          multiplier == rules.overtime.rate_multiplier
      IN IF context.flightHours <= threshold * 60
         THEN RuleApplication("Overtime", "OVERTIME", 0)
         ELSE RuleApplication("Overtime", "OVERTIME",
                  (context.flightHours - threshold * 60)
                      * getBasePayRate(rules, context.crewMember)
                      * (multiplier - 100))

\* a faulty variant: the difference is paid even when base pay is above the
\* guarantee
calculateGuaranteePayUnfloored(rules, context, calculatedBasePay) ==
    IF ~rules.loaded THEN RuleApplication("Guarantee", "GUARANTEE", 0)
    ELSE IF context.crewMember.position \notin DOMAIN rules.guarantee.positions
    THEN RuleApplication("Guarantee", "GUARANTEE", 0)
    ELSE RuleApplication("Monthly Guarantee", "GUARANTEE",
             Dollars(rules.guarantee.positions[context.crewMember.position]
                         .guaranteed_amount) - calculatedBasePay)

calculateGuaranteePay(rules, context, calculatedBasePay) ==
    IF ~rules.loaded THEN RuleApplication("Guarantee", "GUARANTEE", 0)
    ELSE IF context.crewMember.position \notin DOMAIN rules.guarantee.positions
    THEN RuleApplication("Guarantee", "GUARANTEE", 0)
    ELSE
      LET guaranteedAmount ==
              Dollars(rules.guarantee.positions[context.crewMember.position]
                          .guaranteed_amount)
      IN IF calculatedBasePay < guaranteedAmount
         THEN RuleApplication("Monthly Guarantee", "GUARANTEE",
                              guaranteedAmount - calculatedBasePay)
         ELSE RuleApplication("Guarantee", "GUARANTEE", 0)

RECURSIVE SumAmounts(_)
\* premiumPay.reduce((sum, p) => sum + p.amount, 0)
SumAmounts(items) ==
    IF items = << >> THEN 0 ELSE Head(items).amount + SumAmounts(Tail(items))

\* a faulty variant: base pay is taken from the rules the engine holds in
\* dbRules at the moment the components are calculated
applyAllRulesFromLoadedRules(rules, context) ==
    LET loaded == SelectSeq(dbRules, LAMBDA r : r.rule_type = "BASE_PAY")
        basePay == IF Len(loaded) > 0
                   THEN RuleApplication("Base Pay", "BASE_PAY",
                            context.flightHours * loaded[1].rule_config.hourly_rate * 100)
                   ELSE calculateBasePay(rules, context)
        perDiem == calculatePerDiem(rules, context)
        premiumPay == calculatePremiumPay(rules, context)
        overtimePay == calculateOvertimePay(rules, context)
        guaranteePay == calculateGuaranteePay(rules, context, basePay.amount)
    IN [basePay |-> basePay, perDiem |-> perDiem, premiumPay |-> premiumPay,
        overtimePay |-> overtimePay, guaranteePay |-> guaranteePay,
        totalAmount |-> basePay.amount + perDiem.amount + SumAmounts(premiumPay)
                        + overtimePay.amount + guaranteePay.amount]

\* a faulty variant: the guarantee is reported but left out of the total
applyAllRulesTotalWithoutGuarantee(rules, context) ==
    LET basePay == calculateBasePay(rules, context)
        perDiem == calculatePerDiem(rules, context)
        premiumPay == calculatePremiumPay(rules, context)
        overtimePay == calculateOvertimePay(rules, context)
        guaranteePay == calculateGuaranteePay(rules, context, basePay.amount)
    IN [basePay |-> basePay, perDiem |-> perDiem, premiumPay |-> premiumPay,
        overtimePay |-> overtimePay, guaranteePay |-> guaranteePay,
        totalAmount |-> basePay.amount + perDiem.amount + SumAmounts(premiumPay)
                        + overtimePay.amount]

\* the components and their total; the load of dbRules that comes first is
\* part of the actions
applyAllRules(rules, context) ==
    LET basePay == calculateBasePay(rules, context)
        perDiem == calculatePerDiem(rules, context)
        premiumPay == calculatePremiumPay(rules, context)
        overtimePay == calculateOvertimePay(rules, context)
        guaranteePay == calculateGuaranteePay(rules, context, basePay.amount)
    IN [basePay |-> basePay, perDiem |-> perDiem, premiumPay |-> premiumPay,
        overtimePay |-> overtimePay, guaranteePay |-> guaranteePay,
        totalAmount |-> basePay.amount + perDiem.amount + SumAmounts(premiumPay)
                        + overtimePay.amount + guaranteePay.amount]

\* what loadDatabaseRules leaves in dbRules: the rows read, or [] when the
\* read failed (the failure is caught and logged)
loadDatabaseRules(crewMember, periodStart, readFailed) ==
    IF readFailed THEN << >>
    ELSE getPayCalculationRules(crewMember.crew_type, crewMember.position, periodStart)

---------------------------------------------------------------------------
(* engines/pay-calculator.ts *)

Min(a, b) == IF a <= b THEN a ELSE b

RECURSIVE SumDutyMinutes(_)
SumDutyMinutes(rows) ==
    IF rows = << >> THEN 0
    ELSE Head(rows).duty_time_minutes + SumDutyMinutes(Tail(rows))

RECURSIVE SumNightMinutes(_)
SumNightMinutes(rows) ==
    IF rows = << >> THEN 0
    ELSE (IF Head(rows).wocl_crossing
          THEN Min(Head(rows).duty_time_minutes, 240) ELSE 0)
         + SumNightMinutes(Tail(rows))

\* the hours of the source are kept in minutes
calculateTotals(dutyRecords) ==
    [totalFlightHours |-> SumFlightMinutes(dutyRecords),
     totalDutyHours |-> SumDutyMinutes(dutyRecords),
     dutyDays |-> Cardinality({ dutyRecords[i].duty_date : i \in 1..Len(dutyRecords) }),
     nightHours |-> SumNightMinutes(dutyRecords),
     internationalTrips |-> 0,
     holidayHours |-> 0]

\* differenceInYears(new Date(), hire_date), a year taken as 365 days
yearsOfServiceOf(crewMember, clock) == (DateOf(clock) - crewMember.hire_date) \div 365

\* the rate of the source (amount / hours) is left out
convertToBreakdownItem(ruleApp, hours) ==
    [type |-> ruleApp.ruleName, hours |-> hours, amount |-> ruleApp.amount]

\* a faulty variant: the components with amount 0 are listed too
appliedRulesOfUnfiltered(ruleResults) ==
    LET all == << ruleResults.basePay, ruleResults.perDiem >>
               \o ruleResults.premiumPay
               \o << ruleResults.overtimePay, ruleResults.guaranteePay >>
    IN [i \in 1..Len(all) |->
           [rule_name |-> all[i].ruleName, rule_type |-> all[i].ruleType,
            amount |-> all[i].amount]]

\* the entries of the audit list: the rule applications with amount > 0
appliedRulesOf(ruleResults) ==
    LET all == << ruleResults.basePay, ruleResults.perDiem >>
               \o ruleResults.premiumPay
               \o << ruleResults.overtimePay, ruleResults.guaranteePay >>
        kept == SelectSeq(all, LAMBDA r : r.amount > 0)
    IN [i \in 1..Len(kept) |->
           [rule_name |-> kept[i].ruleName, rule_type |-> kept[i].ruleType,
            amount |-> kept[i].amount]]

\* the PayCalculation both operations assemble
PayCalculationOf(crewMember, periodStart, periodEnd, flightHours, dutyHours, ruleResults, dutyRecords, clock) ==
    [crew_member |-> [employee_number |-> crewMember.employee_number,
                      position |-> crewMember.position],
     pay_period |-> [start |-> periodStart, end |-> periodEnd],
     summary |-> [total_flight_hours |-> flightHours,
                  total_duty_hours |-> dutyHours,
                  total_compensation |-> ruleResults.totalAmount],
     breakdown |->
        [base_pay |-> convertToBreakdownItem(ruleResults.basePay, flightHours),
         per_diem |-> convertToBreakdownItem(ruleResults.perDiem, dutyHours),
         premium_pay |->
            [i \in 1..Len(ruleResults.premiumPay) |->
                convertToBreakdownItem(ruleResults.premiumPay[i], 0)],
         overtime_pay |-> convertToBreakdownItem(ruleResults.overtimePay, 0),
         guarantee_pay |-> convertToBreakdownItem(ruleResults.guaranteePay, 0)],
     duty_records |->
        [i \in 1..Len(dutyRecords) |->
            [date |-> dutyRecords[i].duty_date,
             flight_time |-> dutyRecords[i].flight_time_minutes,
             duty_time |-> dutyRecords[i].duty_time_minutes]],
     applied_rules |-> appliedRulesOf(ruleResults),
     calculation_timestamp |-> clock]

\* steps 3 to 10 of calculatePay: the PayCalculation of a crew member from
\* the duty records that were read
calculatePayFromRecords(rules, crewMember, dutyRecords, periodStart, periodEnd, clock) ==
    LET totals == calculateTotals(dutyRecords)
        context == [crewMember |-> crewMember,
                    periodStart |-> periodStart, periodEnd |-> periodEnd,
                    flightHours |-> totals.totalFlightHours,
                    dutyHours |-> totals.totalDutyHours,
                    dutyDays |-> totals.dutyDays,
                    nightHours |-> totals.nightHours,
                    internationalTrips |-> totals.internationalTrips,
                    holidayHours |-> totals.holidayHours,
                    yearsOfService |-> yearsOfServiceOf(crewMember, clock)]
    IN PayCalculationOf(crewMember, periodStart, periodEnd,
                        totals.totalFlightHours, totals.totalDutyHours,
                        applyAllRules(rules, context), dutyRecords, clock)

\* the PayCalculation of a crew member that was found; the duty records are
\* read with the identifier as it was passed
calculatePay(rules, crewMember, crewId, periodStart, periodEnd, clock) ==
    calculatePayFromRecords(rules, crewMember,
                            getDutyTimeRecords(crewId, periodStart, periodEnd),
                            periodStart, periodEnd, clock)

\* a faulty variant: the duty records are queried before the crew member is
\* looked up
calculatePayOutcomeQueriesFirst(rules, crewId, periodStart, periodEnd, clock) ==
    LET found == getCrewMember(crewId)
        crewMember == CHOOSE c \in found : TRUE
    IN IF ~IsUUID(crewId)
       THEN [status |-> "error", error |-> "QueryError"]
       ELSE IF found = {}
       THEN [status |-> "error", error |-> "Crew member not found"]
       ELSE [status |-> "ok",
             result |-> calculatePay(rules, crewMember, crewId, periodStart,
                                     periodEnd, clock)]

\* what a call calculatePay(crewId, periodStart, periodEnd) does when every
\* read succeeds: the duty_time_records query compares the UUID column
\* crew_id with the identifier and fails on a text that is no UUID
calculatePayOutcome(rules, crewId, periodStart, periodEnd, clock) ==
    LET found == getCrewMember(crewId)
        crewMember == CHOOSE c \in found : TRUE
    IN IF found = {}
       THEN [status |-> "error", error |-> "Crew member not found"]
       ELSE IF ~IsUUID(crewId)
       THEN [status |-> "error", error |-> "QueryError"]
       ELSE [status |-> "ok",
             result |-> calculatePay(rules, crewMember, crewId, periodStart,
                                     periodEnd, clock)]

\* Math.ceil(estimatedFlightHours / 5) for flight time in minutes
estimatedDutyDays(estimatedFlightHours) == (estimatedFlightHours + 299) \div 300

estimatePay(rules, crewMember, estimatedFlightHours, estimatedDutyHours, periodStart, periodEnd, clock) ==
    LET context == [crewMember |-> crewMember,
                    periodStart |-> periodStart, periodEnd |-> periodEnd,
                    flightHours |-> estimatedFlightHours,
                    dutyHours |-> estimatedDutyHours,
                    dutyDays |-> estimatedDutyDays(estimatedFlightHours),
                    nightHours |-> 0,
                    internationalTrips |-> 0,
                    holidayHours |-> 0,
                    yearsOfService |-> yearsOfServiceOf(crewMember, clock)]
    IN PayCalculationOf(crewMember, periodStart, periodEnd,
                        estimatedFlightHours, estimatedDutyHours,
                        applyAllRules(rules, context), << >>, clock)

estimatePayOutcome(rules, crewId, estimatedFlightHours, estimatedDutyHours, periodStart, periodEnd, clock) ==
    LET found == getCrewMember(crewId)
        crewMember == CHOOSE c \in found : TRUE
    IN IF found = {}
       THEN [status |-> "error", error |-> "Crew member not found"]
       ELSE [status |-> "ok",
             result |-> estimatePay(rules, crewMember, estimatedFlightHours,
                                    estimatedDutyHours, periodStart, periodEnd,
                                    clock)]

\* what calculatePay does when the read failedRead is rejected: a failure
\* of getCrewMember or getDutyTimeRecords is thrown to the caller, a failure
\* of getPayCalculationRules is caught by loadDatabaseRules
calculatePayAttempt(rules, crewId, periodStart, periodEnd, clock, failedRead) ==
    IF failedRead = "getCrewMember" THEN ReadFailure
    ELSE IF getCrewMember(crewId) # {} /\ failedRead = "getDutyTimeRecords"
    THEN ReadFailure
    ELSE calculatePayOutcome(rules, crewId, periodStart, periodEnd, clock)

estimatePayAttempt(rules, crewId, estimatedFlightHours, estimatedDutyHours, periodStart, periodEnd, clock, failedRead) ==
    IF failedRead = "getCrewMember" THEN ReadFailure
    ELSE estimatePayOutcome(rules, crewId, estimatedFlightHours, estimatedDutyHours,
                            periodStart, periodEnd, clock)

RECURSIVE calculateBulkPay(_, _)
\* the array calculateBulkPay returns; evaluations[i] is what
\* calculatePay(crewIds[i], periodStart, periodEnd) did
calculateBulkPay(crewIds, evaluations) ==
    IF Len(crewIds) = 0 THEN << >>
    ELSE (IF evaluations[1].status = "ok" THEN << evaluations[1].result >>
          ELSE << >>)
         \o calculateBulkPay(Tail(crewIds),
                             [i \in 1..(Len(crewIds) - 1) |-> evaluations[i + 1]])

---------------------------------------------------------------------------
(* utils/date-utils.ts *)

\* checks the hour of day at every full hour from dutyStart up to dutyEnd
crossesWOCL(dutyStart, dutyEnd) ==
    /\ dutyStart <= dutyEnd
    /\ \E k \in 0..((dutyEnd - dutyStart) \div 60) :
          HourOf(dutyStart + 60 * k) >= 2 /\ HourOf(dutyStart + 60 * k) < 6

---------------------------------------------------------------------------
(* Inputs *)

\* as-of dates passed to the aggregator and the compliance check
CheckDates ==
    { Ts(BaseDay - 1, 12, 0), Ts(BaseDay, 12, 0), Ts(BaseDay + 28, 12, 0),
      Ts(BaseDay + 29, 12, 0), Ts(BaseDay + 365, 12, 0), Ts(BaseDay + 366, 12, 0) }

\* proposed flight time, in minutes
ProposedMinutes == {0, 300, 600, 630}

Duty(aircraft, start, end, flight, segments) ==
    [aircraft_type |-> aircraft, duty_start_utc |-> start, duty_end_utc |-> end,
     flight_time_minutes |-> flight, number_of_segments |-> segments]

\* proposed duties: starts around the end of the recorded duties, starts at
\* the edges of the rolling windows, another aircraft type, a long FDP
ProposedDuties ==
         { Duty("B737-800", E0 + m, NoEnd, 300, 2) :
             m \in {-120, 540, 599, 600, 630, 659, 660, 719, 720} }
    \cup { Duty("B737-800", Ts(d, 8, 0), NoEnd, f, 2) :
             d \in {BaseDay - 1, BaseDay + 1, BaseDay + 28, BaseDay + 29,
                    BaseDay + 365, BaseDay + 366},
             f \in ProposedMinutes }
    \cup { Duty("A320", E0 + 720, NoEnd, 300, 2),
           Duty("B737-800", E0 + 720, E0 + 720 + 900, 300, 5),
           Duty("B737-800", E0 + 720, E0 + 720 + 600, 0, 0) }

Args(id, date, start, end, flight, duty, wocl) ==
    [crew_identifier |-> id, duty_date |-> date, duty_start_utc |-> start,
     duty_end_utc |-> end, flight_time_minutes |-> flight,
     duty_time_minutes |-> duty, wocl_crossing |-> wocl]

\* arguments of update-duty-time; 0 minutes and "omitted" stand for an
\* optional argument that is not given
UpdateArgs ==
    { Args("E1", BaseDay, E0 - 480, E0, 300, 0, "omitted"),
      Args("u1", BaseDay, E0 - 541, E0, 5400, 541, "omitted"),
      Args("u1", BaseDay, E0 - 780, E0, 5700, 780, "false"),
      Args("E1", BaseDay, E0 - 781, E0, 5730, 781, "true"),
      Args("u1", BaseDay - 1, Ts(BaseDay - 1, 8, 0), Ts(BaseDay - 1, 17, 0),
           54000, 0, "omitted"),
      Args("u1", BaseDay, Ts(BaseDay, 22, 0), Ts(BaseDay + 1, 9, 0),
           57000, 0, "omitted"),
      Args("E2", BaseDay, E0 - 480, E0, 6000, 480, "false"),
      Args("X9", BaseDay, E0 - 480, E0, 300, 0, "omitted") }

\* rows the external store may hold that update-duty-time cannot write
ExternalRows ==
    { [crew_id |-> "u1", duty_date |-> BaseDay, duty_start_utc |-> E0 + 60,
       duty_end_utc |-> NoEnd, flight_time_minutes |-> 300,
       duty_time_minutes |-> 480, wocl_crossing |-> FALSE] }

---------------------------------------------------------------------------
(* tools/update-duty-time.ts *)

\* the row handleUpdateDutyTime builds for a crew member
dutyRecordOf(crewMember, params) ==
    [crew_id |-> crewMember.crew_id,
     duty_date |-> params.duty_date,
     duty_start_utc |-> params.duty_start_utc,
     duty_end_utc |-> params.duty_end_utc,
     flight_time_minutes |-> params.flight_time_minutes,
     duty_time_minutes |->
         IF params.duty_time_minutes # 0 THEN params.duty_time_minutes
         ELSE params.duty_end_utc - params.duty_start_utc,
     wocl_crossing |->
         IF params.wocl_crossing # "omitted" THEN params.wocl_crossing = "true"
         ELSE crossesWOCL(params.duty_start_utc, params.duty_end_utc)]

---------------------------------------------------------------------------
(* Operations.  The server answers one request at a time: an operation
   starts when no response is pending and leaves its response in resp. *)

NoResponse == [op |-> "none", status |-> "ok"]

\* nothing calculated yet
NoLog == [op |-> "none"]

\* no call in flight
NoCalls == << >>

Idle == resp = NoResponse

\* the pending response is handed to the caller
Reply ==
    /\ ~Idle
    /\ resp' = NoResponse
    /\ UNCHANGED <<duty_time_records, now, ticks, faaRules, staticRules, dbRules, others>>

Tick ==
    /\ Idle
    /\ ticks < MaxTicks
    /\ now' = now + 29 * MinutesPerDay
    /\ ticks' = ticks + 1
    /\ UNCHANGED <<duty_time_records, faaRules, staticRules, dbRules, resp, others>>

\* the store is external: a row arrives that the engines did not write
ExternalInsert(row) ==
    /\ Idle
    /\ Len(duty_time_records) < MaxRecords
    /\ duty_time_records' = Append(duty_time_records, row)
    /\ UNCHANGED <<now, ticks, faaRules, staticRules, dbRules, resp, others>>

HandleUpdateDutyTime(params) ==
    LET found == getCrewMember(params.crew_identifier)
        crewMember == CHOOSE c \in found : TRUE
    IN IF found = {}
       THEN /\ Idle
            /\ resp' = [op |-> "updateDutyTime", status |-> "error",
                        error |-> "Crew member not found", params |-> params]
            /\ UNCHANGED <<duty_time_records, now, ticks, faaRules, staticRules, dbRules, others>>
       ELSE /\ Idle
            /\ Len(duty_time_records) < MaxRecords
            /\ duty_time_records' = upsertDutyTimeRecord(dutyRecordOf(crewMember, params))
            /\ UNCHANGED <<now, ticks, faaRules, staticRules, dbRules, others>>
            /\ resp' = [op |-> "updateDutyTime", status |-> "ok", params |-> params,
                        crew_id |-> crewMember.crew_id, clock |-> now,
                        compliance_check |->
                          [is_compliant |->
                               isClearForAssignment(crewMember.crew_id,
                                   params.flight_time_minutes, now)'.is_clear,
                           alerts |-> checkCrewCompliance(crewMember.crew_id, now)']]

\* a direct call of the aggregator
RollingHours(crewId, asOfDate) ==
    /\ Idle
    /\ resp' = IF IsUUID(crewId)
               THEN [op |-> "calculateRollingHours", status |-> "ok",
                     crewId |-> crewId, asOfDate |-> asOfDate,
                     rolling |-> calculateRollingHours(crewId, asOfDate)]
               ELSE [op |-> "calculateRollingHours", status |-> "error",
                     error |-> "QueryError"]
    /\ UNCHANGED <<duty_time_records, now, ticks, faaRules, staticRules, dbRules, others>>

\* failedRead names the read of the store that is rejected during the call,
\* "none" when every read succeeds; a read the call does not make cannot fail
CheckCrewCompliance(crewId, checkDate, failedRead) ==
    LET outcome == checkCrewComplianceAttempt(crewId, checkDate, failedRead)
    IN /\ Idle
       /\ failedRead = "none" \/ outcome.status = "error"
       /\ resp' = IF outcome.status = "ok"
                  THEN [op |-> "checkCrewCompliance", status |-> "ok",
                        crewId |-> crewId, checkDate |-> checkDate,
                        failedRead |-> failedRead, alerts |-> outcome.alerts]
                  ELSE [op |-> "checkCrewCompliance", status |-> "error",
                        crewId |-> crewId, checkDate |-> checkDate,
                        failedRead |-> failedRead, error |-> outcome.error]
       /\ UNCHANGED <<duty_time_records, now, ticks, faaRules, staticRules, dbRules, others>>

IsClearForAssignment(crewId, proposedFlightHours, failedRead) ==
    LET outcome == isClearForAssignmentAttempt(crewId, proposedFlightHours, now,
                                               failedRead)
    IN /\ Idle
       /\ failedRead = "none" \/ outcome = ReadFailure
       /\ resp' = IF outcome.status = "ok"
                  THEN [op |-> "isClearForAssignment", status |-> "ok",
                        crewId |-> crewId, proposedFlightHours |-> proposedFlightHours,
                        clock |-> now, failedRead |-> failedRead,
                        result |-> outcome.result]
                  ELSE [op |-> "isClearForAssignment", status |-> "error",
                        crewId |-> crewId, failedRead |-> failedRead,
                        error |-> outcome.error]
       /\ UNCHANGED <<duty_time_records, now, ticks, faaRules, staticRules, dbRules, others>>

\* a LegalityValidator exists only when its constructor loaded the FAA rules
ValidateAssignment(crewId, proposedDuty, failedRead) ==
    LET outcomes == validateAssignmentAttempt(faaRules, crewId, proposedDuty, failedRead)
    IN /\ Idle
       /\ faaRules.loaded
       /\ failedRead = "none" \/ outcomes = { ReadFailure }
       /\ \E outcome \in outcomes :
             resp' = [op |-> "validateAssignment", crewId |-> crewId,
                      proposedDuty |-> proposedDuty, failedRead |-> failedRead,
                      outcome |-> outcome]
       /\ UNCHANGED <<duty_time_records, now, ticks, faaRules, staticRules, dbRules, others>>

---------------------------------------------------------------------------
(* The store, the legality validator and the compliance monitor *)

Init ==
    /\ duty_time_records = << >>
    /\ now = Ts(BaseDay, 23, 0)
    /\ ticks = 0
    /\ faaRules = FAARules(FullFDPTable)
    /\ staticRules = PayRules
    /\ dbRules = << >>
    /\ resp = NoResponse
    /\ faa_part117_compliance = << >>
    /\ payLog = NoLog
    /\ calls = NoCalls

Next ==
    \/ Reply
    \/ Tick
    \/ \E row \in ExternalRows : ExternalInsert(row)
    \/ \E params \in UpdateArgs : HandleUpdateDutyTime(params)
    \/ \E crewId \in Identifiers, asOfDate \in CheckDates : RollingHours(crewId, asOfDate)
    \/ \E crewId \in Identifiers, checkDate \in CheckDates :
          CheckCrewCompliance(crewId, checkDate, "none")
    \/ \E crewId \in Identifiers, h \in ProposedMinutes :
          IsClearForAssignment(crewId, h, "none")
    \/ \E crewId \in Identifiers, proposedDuty \in ProposedDuties :
          ValidateAssignment(crewId, proposedDuty, "none")

Spec == Init /\ [][Next]_vars

---------------------------------------------------------------------------
(* Properties of the store, the legality validator and the compliance
   monitor.  A pending response is judged against the store it was computed
   from: no row is written while a response is pending. *)

\* flight minutes of the first n rows of the store that belong to crewId
\* and are dated in [lo, hi]
RECURSIVE WindowMinutes(_, _, _, _)
WindowMinutes(n, crewId, lo, hi) ==
    IF n = 0 THEN 0
    ELSE (IF /\ duty_time_records[n].crew_id = crewId
             /\ duty_time_records[n].duty_date >= lo
             /\ duty_time_records[n].duty_date <= hi
          THEN duty_time_records[n].flight_time_minutes ELSE 0)
         + WindowMinutes(n - 1, crewId, lo, hi)

Minutes28(crewId, asOf) ==
    WindowMinutes(Len(duty_time_records), crewId, DateOf(asOf) - 28, DateOf(asOf))

Minutes365(crewId, asOf) ==
    WindowMinutes(Len(duty_time_records), crewId, DateOf(asOf) - 365, DateOf(asOf))

\* the crew_id an identifier resolves to
UuidOf(identifier) == (CHOOSE c \in getCrewMember(identifier) : TRUE).crew_id

\* a validateAssignment call that returned a LegalityResult
ValidatedOk == resp.op = "validateAssignment" /\ resp.outcome.status = "ok"

\* the duty history a pending validateAssignment call read
ValidatedHistory == dutyHistoryOf(UuidOf(resp.crewId), resp.proposedDuty)

\* C1: validateAssignment returns is_legal = true exactly when there are no
\* qualification issues, rest is compliant, the proposed FDP is compliant and
\* both projected rolling totals are at most their ceilings (100h and 1000h);
\* a projected total equal to its ceiling does not make the duty illegal.
C1_IsLegalIffAllChecksPass ==
    ValidatedOk =>
        LET r == resp.outcome.result
        IN r.is_legal <=>
              /\ Len(r.qualification_issues) = 0
              /\ r.rest_compliance.is_compliant
              /\ checkFDPLimits(faaRules, resp.proposedDuty).is_compliant
              /\ r.duty_limits.rolling_28_day_hours <= 100 * 60
              /\ r.duty_limits.rolling_365_day_hours <= 1000 * 60

\* a legal assignment whose projected 28-day total is exactly 100h
C1_LegalAtCeiling ==
    /\ ValidatedOk
    /\ resp.outcome.result.duty_limits.rolling_28_day_hours = 100 * 60
    /\ resp.outcome.result.is_legal

\* C3: the aggregator's 28-day total is at most its 365-day total, and each
\* is the sum of the flight minutes of the crew member's records dated in
\* [asOfDate - 28d, asOfDate] and [asOfDate - 365d, asOfDate] (totals are
\* kept in minutes, i.e. hours times 60).
C3_RollingWindowTotals ==
    (resp.op = "calculateRollingHours" /\ resp.status = "ok") =>
        /\ resp.rolling.rolling_28_day <= resp.rolling.rolling_365_day
        /\ resp.rolling.rolling_28_day = Minutes28(resp.crewId, resp.asOfDate)
        /\ resp.rolling.rolling_365_day = Minutes365(resp.crewId, resp.asOfDate)

\* the aggregator answered with a 28-day total strictly between 0 and the
\* 365-day total, while the store holds a row dated after the as-of date
C3_WindowsDiffer ==
    /\ resp.op = "calculateRollingHours"
    /\ resp.status = "ok"
    /\ 0 < resp.rolling.rolling_28_day
    /\ resp.rolling.rolling_28_day < resp.rolling.rolling_365_day

\* C4: isClearForAssignment returns is_clear = false exactly when the rolling
\* 28-day hours plus the proposed hours exceed 100 or the rolling 365-day
\* hours plus the proposed hours exceed 1000 (strictly); when both are
\* exceeded the reason names the 28-day ceiling.
C4_ClearIffWithinCeilings ==
    (resp.op = "isClearForAssignment" /\ resp.status = "ok") =>
        LET p28 == Minutes28(resp.crewId, resp.clock) + resp.proposedFlightHours
            p365 == Minutes365(resp.crewId, resp.clock) + resp.proposedFlightHours
        IN /\ (resp.result.is_clear = FALSE) <=> (p28 > 100 * 60 \/ p365 > 1000 * 60)
           /\ (p28 > 100 * 60 /\ p365 > 1000 * 60)
                 => resp.result.reason = "28-day limit"
           /\ (p28 <= 100 * 60 /\ p365 > 1000 * 60)
                 => resp.result.reason = "365-day limit"

\* both ceilings are exceeded and the answer names the 28-day ceiling
C4_BothExceeded ==
    /\ resp.op = "isClearForAssignment"
    /\ resp.status = "ok"
    /\ Minutes28(resp.crewId, resp.clock) + resp.proposedFlightHours > 100 * 60
    /\ Minutes365(resp.crewId, resp.clock) + resp.proposedFlightHours > 1000 * 60
    /\ resp.result.is_clear = FALSE
    /\ resp.result.reason = "28-day limit"

\* the rest required after a duty of the given length (minutes), in hours
RequiredRest(dutyMinutes) ==
    IF dutyMinutes <= 9 * 60 THEN 10
    ELSE IF dutyMinutes <= 13 * 60 THEN 11
    ELSE 12

\* C5: when the previous duty (the latest-ending duty of the history) has a
\* recorded end, the rest check requires 10h after an FDP of at most 9h, 11h
\* after one over 9h and up to 13h, 12h after a longer one; it is compliant
\* exactly when the time from that duty's end to the proposed start is at
\* least the required rest (after an 8h FDP: end + 9h is not, end + 10h is);
\* a non-compliant result carries one violation with both values.
C5_RestTiers ==
    (/\ ValidatedOk
     /\ Len(ValidatedHistory) > 0
     /\ \A i \in 1..Len(ValidatedHistory) : ValidatedHistory[i].duty_end_utc # NoEnd)
    =>
        LET rest == resp.outcome.result.rest_compliance
            h == ValidatedHistory
            start == resp.proposedDuty.duty_start_utc
        IN \E i \in 1..Len(h) :
              /\ \A j \in 1..Len(h) : h[j].duty_end_utc <= h[i].duty_end_utc
              /\ rest.minimum_rest_required = RequiredRest(h[i].duty_time_minutes)
              /\ rest.is_compliant <=>
                    (start - h[i].duty_end_utc
                        >= 60 * RequiredRest(h[i].duty_time_minutes))
              /\ (h[i].duty_time_minutes = 8 * 60 /\ start = h[i].duty_end_utc + 9 * 60)
                    => ~rest.is_compliant
              /\ (h[i].duty_time_minutes = 8 * 60 /\ start = h[i].duty_end_utc + 10 * 60)
                    => rest.is_compliant
              /\ rest.is_compliant => rest.violations = << >>
              /\ ~rest.is_compliant =>
                    /\ Len(rest.violations) = 1
                    /\ rest.violations[1].X = rest.hours_since_rest
                    /\ rest.violations[1].N = rest.minimum_rest_required
                    /\ rest.hours_since_rest
                          = differenceInHours(start, h[i].duty_end_utc)

\* after a single recorded duty of 8h, a start 10h after its end is compliant
C5_TenHoursAfterEightHourDuty ==
    /\ ValidatedOk
    /\ Len(ValidatedHistory) = 1
    /\ ValidatedHistory[1].duty_end_utc # NoEnd
    /\ ValidatedHistory[1].duty_time_minutes = 8 * 60
    /\ resp.proposedDuty.duty_start_utc = ValidatedHistory[1].duty_end_utc + 10 * 60
    /\ resp.outcome.result.rest_compliance.is_compliant
    /\ resp.outcome.result.rest_compliance.minimum_rest_required = 10

\* the most recent prior duty of the history read by a pending
\* validateAssignment call has no recorded end
MostRecentDutyHasNoEnd ==
    /\ resp.op = "validateAssignment"
    /\ resp.outcome # ReadFailure
    /\ getCrewMember(resp.crewId) # {}
    /\ Len(ValidatedHistory) > 0
    /\ \E i \in 1..Len(ValidatedHistory) :
          /\ ValidatedHistory[i].duty_end_utc = NoEnd
          /\ \A j \in 1..Len(ValidatedHistory) :
                ValidatedHistory[j].duty_start_utc <= ValidatedHistory[i].duty_start_utc

\* C6: whenever the most recent prior duty of the history has no recorded
\* end, whatever the length of the history, the rest check completes with
\* is_compliant = false, minimum_rest_required = 10 and a violation saying
\* that no end time is recorded; it never fails with an error instead.
C6_NoEndTimeIsReported ==
    MostRecentDutyHasNoEnd =>
        /\ resp.outcome.status = "ok"
        /\ resp.outcome.result.rest_compliance.is_compliant = FALSE
        /\ resp.outcome.result.rest_compliance.minimum_rest_required = 10
        /\ resp.outcome.result.rest_compliance.violations
              = << [text |-> "Previous duty has no end time recorded"] >>

\* C8: validateAssignment reports for both windows the aggregator's total as
\* of the proposed start plus the proposed flight hours; whenever a projected
\* total exceeds its ceiling the result has is_legal = false and the
\* recommendations hold a line about that rolling limit.
C8_ProjectedTotals ==
    ValidatedOk =>
        LET r == resp.outcome.result
            rolling == calculateRollingHours(UuidOf(resp.crewId),
                                             resp.proposedDuty.duty_start_utc)
            p28 == rolling.rolling_28_day + resp.proposedDuty.flight_time_minutes
            p365 == rolling.rolling_365_day + resp.proposedDuty.flight_time_minutes
        IN /\ r.duty_limits.rolling_28_day_hours = p28
           /\ r.duty_limits.rolling_365_day_hours = p365
           /\ p28 > 100 * 60 =>
                 /\ ~r.is_legal
                 /\ \E k \in 1..Len(r.recommendations) :
                       /\ r.recommendations[k].text = "Approaching 28-day limit"
                       /\ r.recommendations[k].N = p28
           /\ p365 > 1000 * 60 =>
                 /\ ~r.is_legal
                 /\ \E k \in 1..Len(r.recommendations) :
                       /\ r.recommendations[k].text = "Approaching 365-day limit"
                       /\ r.recommendations[k].N = p365

\* 95.5h recorded in the window and 10h proposed: 105.5h projected, illegal,
\* with the 28-day line among the recommendations
C8_ProjectedOverCeiling ==
    /\ ValidatedOk
    /\ resp.proposedDuty.flight_time_minutes = 600
    /\ resp.outcome.result.duty_limits.rolling_28_day_hours = 6330
    /\ ~resp.outcome.result.is_legal
    /\ \E k \in 1..Len(resp.outcome.result.recommendations) :
          resp.outcome.result.recommendations[k].text = "Approaching 28-day limit"

\* the alerts the grading of the two rolling totals calls for
GradedAlerts(total, window, limitHours) ==
    IF total >= limitHours * 60
    THEN << [window |-> window, alert_type |-> "LIMIT_EXCEEDED",
             severity |-> "CRITICAL"] >>
    ELSE IF total * 100 >= limitHours * 60 * 95
    THEN << [window |-> window, alert_type |-> "APPROACHING_LIMIT",
             severity |-> "HIGH"] >>
    ELSE IF total * 100 >= limitHours * 60 * 90
    THEN << [window |-> window, alert_type |-> "APPROACHING_LIMIT",
             severity |-> "MEDIUM"] >>
    ELSE << >>

---------------------------------------------------------------------------
(* The FDP limit check on its own: checkFDPLimits reads nothing but the
   rule table and the proposed duty *)

MaxSegments == 8         \* largest segment count proposed

\* rule tables the constructor may have loaded: the full matrix, one without
\* rows for five segments and more, one without the night columns
FDPTables ==
    { FullFDPTable,
      RestrictFDPTable({"2_segments", "3_segments", "4_segments"} \X TimeBuckets),
      RestrictFDPTable(SegmentBuckets
                       \X (TimeBuckets \ {"0000-0459", "2300-2359"})) }

\* proposed duties for the FDP check: every report hour, segment counts from
\* none given (0) upwards, an end given or left to the flight time estimate
FDPDuties ==
    LET starts == { Ts(BaseDay, h, m) : h \in 0..23, m \in {0, 30} }
    IN   { Duty("B737-800", start, start + len, 300, n) :
             start \in starts, n \in 0..MaxSegments,
             len \in {539, 540, 541, 660, 780, 781, 840} }
    \cup { Duty("B737-800", start, NoEnd, flight, n) :
             start \in starts, n \in 0..MaxSegments, flight \in {0, 600} }

CheckFDPLimits(proposedDuty) ==
    /\ Idle
    /\ faaRules.loaded
    /\ resp' = [op |-> "checkFDPLimits", proposedDuty |-> proposedDuty,
                result |-> checkFDPLimits(faaRules, proposedDuty)]
    /\ UNCHANGED <<duty_time_records, now, ticks, faaRules, staticRules, dbRules, others>>

InitFDP ==
    /\ duty_time_records = << >>
    /\ now = Ts(BaseDay, 23, 0)
    /\ ticks = 0
    /\ faaRules \in { FAARules(t) : t \in FDPTables }
    /\ staticRules = PayRules
    /\ dbRules = << >>
    /\ resp = NoResponse
    /\ faa_part117_compliance = << >>
    /\ payLog = NoLog
    /\ calls = NoCalls

NextFDP ==
    \/ Reply
    \/ \E proposedDuty \in FDPDuties : CheckFDPLimits(proposedDuty)

SpecFDP == InitFDP /\ [][NextFDP]_vars

\* the report hours a time bucket stands for
InTimeBucket(hour, timeBucket) ==
    CASE timeBucket = "0000-0459" -> hour \in 0..4
      [] timeBucket = "0500-0559" -> hour = 5
      [] timeBucket = "0600-0659" -> hour = 6
      [] timeBucket = "0700-1259" -> hour \in 7..12
      [] timeBucket = "1300-1659" -> hour \in 13..16
      [] timeBucket = "1700-2159" -> hour \in 17..21
      [] timeBucket = "2200-2259" -> hour = 22
      [] timeBucket = "2300-2359" -> hour = 23

\* the segment counts a segment bucket stands for
InSegmentBucket(n, segmentBucket) ==
    CASE segmentBucket = "2_segments" -> n \in {1, 2}
      [] segmentBucket = "3_segments" -> n = 3
      [] segmentBucket = "4_segments" -> n = 4
      [] segmentBucket = "5_segments" -> n = 5
      [] segmentBucket = "6_segments" -> n = 6
      [] segmentBucket = "7_plus_segments" -> n >= 7

\* C7: the FDP lookup maps every start hour 0..23 to exactly one of the 8
\* report-time buckets and every segment count >= 1 to exactly one of the 6
\* segment buckets (06:30 with 2 segments: 2_segments x 0600-0659), takes
\* the maximum FDP from that cell of the rule table and 9.0h exactly when
\* the table has no such cell; the duty is FDP-compliant exactly when its
\* FDP length is at most that maximum.
C7_FDPLookup ==
    resp.op = "checkFDPLimits" =>
        LET pd == resp.proposedDuty
            r == resp.result
            hour == HourOf(pd.duty_start_utc)
            n == IF pd.number_of_segments = 0 THEN 1 ELSE pd.number_of_segments
            cell == <<r.segment_bucket, r.time_bucket>>
            table == faaRules.fdp_limits
            fdp == IF pd.duty_end_utc # NoEnd
                   THEN pd.duty_end_utc - pd.duty_start_utc
                   ELSE IF pd.flight_time_minutes # 0
                   THEN pd.flight_time_minutes ELSE 360
        IN /\ Cardinality(TimeBuckets) = 8
           /\ Cardinality(SegmentBuckets) = 6
           /\ Cardinality({ tb \in TimeBuckets : InTimeBucket(hour, tb) }) = 1
           /\ Cardinality({ sb \in SegmentBuckets : InSegmentBucket(n, sb) }) = 1
           /\ InTimeBucket(hour, r.time_bucket)
           /\ InSegmentBucket(n, r.segment_bucket)
           /\ (hour = 6 /\ pd.duty_start_utc % 60 = 30 /\ n = 2)
                 => cell = <<"2_segments", "0600-0659">>
           /\ r.max_fdp_hours = IF cell \in DOMAIN table THEN table[cell] ELSE 9 * 60
           /\ r.proposed_fdp_hours = fdp
           /\ r.is_compliant <=> (fdp <= r.max_fdp_hours)

\* a duty reporting at 06:30 with 2 segments, as long as the cell allows
C7_HalfPastSixTwoSegments ==
    /\ resp.op = "checkFDPLimits"
    /\ HourOf(resp.proposedDuty.duty_start_utc) = 6
    /\ resp.proposedDuty.duty_start_utc % 60 = 30
    /\ resp.proposedDuty.number_of_segments = 2
    /\ resp.result.segment_bucket = "2_segments"
    /\ resp.result.time_bucket = "0600-0659"
    /\ resp.result.max_fdp_hours
          = faaRules.fdp_limits[<<"2_segments", "0600-0659">>]
    /\ resp.result.proposed_fdp_hours = resp.result.max_fdp_hours
    /\ resp.result.is_compliant

---------------------------------------------------------------------------
(* The pay calculator over the recorded duty time *)

\* identifiers passed to the pay calculator
PayIdentifiers == Identifiers \cup {"u3"}

\* duty recorded before pay is calculated
PayArgs ==
    { Args("u1", BaseDay, E0 - 480, E0, 300, 0, "omitted"),
      Args("E1", BaseDay, E0 - 781, E0, 5730, 781, "true"),
      Args("u1", BaseDay - 1, Ts(BaseDay - 1, 21, 0), Ts(BaseDay - 1, 24, 0),
           120, 180, "true"),
      Args("E2", BaseDay, E0 - 480, E0, 6000, 480, "false"),
      Args("E3", BaseDay, E0 - 480, E0, 300, 480, "false") }

\* pay periods, as <<periodStart, periodEnd>>
PayPeriods ==
    { <<Ts(BaseDay, 0, 0), Ts(BaseDay, 0, 0)>>,
      <<Ts(BaseDay - 1, 0, 0), Ts(BaseDay + 29, 0, 0)>> }

\* estimated flight and duty time, in minutes
EstimatedFlight == {0, 1, 3840, 4500, 5100, 5400}

\* the reads of the store a pay calculation makes; "none" for no failure
PayReads == {"none", "getCrewMember", "getDutyTimeRecords", "getPayCalculationRules"}
EstimatedDuty == {0, 239, 240, 6000}

CalculatePay(crewId, period, failedRead) ==
    LET outcome == calculatePayAttempt(staticRules, crewId, period[1], period[2], now,
                                       failedRead)
    IN /\ Idle
       /\ \/ failedRead = "none"
          \/ outcome = ReadFailure
          \/ failedRead = "getPayCalculationRules" /\ outcome.status = "ok"
       /\ resp' = [op |-> "calculatePay", crewId |-> crewId, period |-> period,
                   clock |-> now, failedRead |-> failedRead, outcome |-> outcome]
       /\ dbRules' = IF outcome.status = "ok"
                     THEN loadDatabaseRules(CHOOSE c \in getCrewMember(crewId) : TRUE,
                                            period[1],
                                            failedRead = "getPayCalculationRules")
                     ELSE dbRules
       /\ UNCHANGED <<duty_time_records, now, ticks, faaRules, staticRules, others>>

EstimatePay(crewId, estimatedFlightHours, estimatedDutyHours, period, failedRead) ==
    LET outcome == estimatePayAttempt(staticRules, crewId, estimatedFlightHours,
                                      estimatedDutyHours, period[1], period[2], now,
                                      failedRead)
    IN /\ Idle
       /\ \/ failedRead = "none"
          \/ outcome = ReadFailure
          \/ failedRead = "getPayCalculationRules" /\ outcome.status = "ok"
       /\ resp' = [op |-> "estimatePay", crewId |-> crewId,
                   estimatedFlightHours |-> estimatedFlightHours,
                   estimatedDutyHours |-> estimatedDutyHours,
                   period |-> period, clock |-> now, failedRead |-> failedRead,
                   outcome |-> outcome]
       /\ dbRules' = IF outcome.status = "ok"
                     THEN loadDatabaseRules(CHOOSE c \in getCrewMember(crewId) : TRUE,
                                            period[1],
                                            failedRead = "getPayCalculationRules")
                     ELSE dbRules
       /\ UNCHANGED <<duty_time_records, now, ticks, faaRules, staticRules, others>>

InitPay ==
    /\ duty_time_records = << >>
    /\ now = Ts(BaseDay, 23, 0)
    /\ ticks = 0
    /\ faaRules = FAARules(FullFDPTable)
    /\ staticRules \in {PayRules, NoPayRules}
    /\ dbRules = << >>
    /\ resp = NoResponse
    /\ faa_part117_compliance = << >>
    /\ payLog = NoLog
    /\ calls = NoCalls

NextPay ==
    \/ Reply
    \/ Tick
    \/ \E params \in PayArgs : HandleUpdateDutyTime(params)
    \/ \E crewId \in PayIdentifiers, period \in PayPeriods,
             failedRead \in {"none", "getPayCalculationRules"} :
          CalculatePay(crewId, period, failedRead)
    \/ \E crewId \in PayIdentifiers, f \in EstimatedFlight, d \in EstimatedDuty :
          EstimatePay(crewId, f, d, CHOOSE period \in PayPeriods : TRUE, "none")

SpecPay == InitPay /\ [][NextPay]_vars

\* a calculatePay or estimatePay call that returned a PayCalculation
PaidOk ==
    /\ resp.op \in {"calculatePay", "estimatePay"}
    /\ resp.outcome.status = "ok"

\* C2: every PayCalculation returned by calculatePay or estimatePay has
\* total_compensation = base pay + per diem + the sum of all premium
\* amounts + overtime pay + guarantee pay, as the breakdown reports them.
C2_PayAdditivity ==
    PaidOk =>
        LET calc == resp.outcome.result
            b == calc.breakdown
        IN calc.summary.total_compensation
              = b.base_pay.amount + b.per_diem.amount + SumAmounts(b.premium_pay)
                + b.overtime_pay.amount + b.guarantee_pay.amount

\* a PayCalculation from recorded duty with base pay, per diem, two premiums
\* and a guarantee top-up, all of them positive
C2_AllComponentsPaid ==
    /\ resp.op = "calculatePay"
    /\ resp.outcome.status = "ok"
    /\ resp.outcome.result.breakdown.base_pay.amount > 0
    /\ resp.outcome.result.breakdown.per_diem.amount > 0
    /\ Len(resp.outcome.result.breakdown.premium_pay) = 2
    /\ resp.outcome.result.breakdown.premium_pay[1].amount > 0
    /\ resp.outcome.result.breakdown.premium_pay[2].amount > 0
    /\ resp.outcome.result.breakdown.guarantee_pay.amount > 0
    /\ resp.outcome.result.summary.total_compensation
          > resp.outcome.result.breakdown.base_pay.amount
            + resp.outcome.result.breakdown.guarantee_pay.amount

\* the crew member a pending pay call was made for
PaidMember == CHOOSE c \in getCrewMember(resp.crewId) : TRUE

\* C12: for every position with a configured guarantee and every calculated
\* base pay, guarantee pay is max(0, guaranteed_amount - base pay): the
\* shortfall when base pay is below the guarantee (16,000 against 18,750
\* gives 2,750), zero when base pay meets or exceeds it; with no guarantee
\* configured it is zero and the calculation still completes.
C12_GuaranteeTopUp ==
    PaidOk =>
        LET base == resp.outcome.result.breakdown.base_pay.amount
            paid == resp.outcome.result.breakdown.guarantee_pay.amount
            configured == /\ staticRules.loaded
                          /\ PaidMember.position \in DOMAIN staticRules.guarantee.positions
            guaranteed == staticRules.guarantee.positions[PaidMember.position]
                              .guaranteed_amount
        IN IF configured
           THEN /\ base < Dollars(guaranteed) => paid = Dollars(guaranteed) - base
                /\ base >= Dollars(guaranteed) => paid = 0
                /\ (guaranteed = 18750 /\ base = Dollars(16000))
                      => paid = Dollars(2750)
           ELSE paid = 0

\* base pay of 16,000 against the guarantee of 18,750: a top-up of 2,750
C12_ShortfallOf2750 ==
    /\ PaidOk
    /\ resp.outcome.result.breakdown.base_pay.amount = Dollars(16000)
    /\ resp.outcome.result.breakdown.guarantee_pay.amount = Dollars(2750)

\* the dynamic base pay rules the pending call loaded, most recent first
LoadedBasePayRules == SelectSeq(dbRules, LAMBDA r : r.rule_type = "BASE_PAY")

\* C17: when dynamic rules applicable to a pay component exist for the crew
\* category, position and period start, the component is evaluated with
\* exactly one of them, the one with the most recent effective date; the
\* static value is used only when no applicable dynamic rule is found.
\* Stated for the base pay component: flight hours times the hourly rate.
C17_DynamicRuleFirst ==
    (PaidOk /\ resp.failedRead = "none") =>
        LET calc == resp.outcome.result
            context == [crewMember |-> PaidMember,
                        flightHours |-> calc.summary.total_flight_hours]
        IN calc.breakdown.base_pay.amount
              = IF Len(LoadedBasePayRules) > 0
                THEN calc.summary.total_flight_hours
                        * LoadedBasePayRules[1].rule_config.hourly_rate * 100
                ELSE calculateBasePay(staticRules, context).amount

---------------------------------------------------------------------------
(* The bulk operations *)

MaxCrewIds == 2          \* length of the list of crew ids

\* identifiers passed in bulk: a crew id, an employee number, an unknown one
BulkIdentifiers == {"u1", "E2", "X9"}

RECURSIVE ListsUpTo(_)
ListsUpTo(n) ==
    IF n = 0 THEN { << >> }
    ELSE ListsUpTo(n - 1)
         \cup { Append(l, id) : l \in { m \in ListsUpTo(n - 1) : Len(m) = n - 1 },
                                id \in BulkIdentifiers }

CrewIdLists == ListsUpTo(MaxCrewIds)

BulkArgs ==
    { Args("u1", BaseDay, E0 - 480, E0, 300, 0, "omitted"),
      Args("E2", BaseDay, E0 - 480, E0, 6000, 480, "false") }

BulkDuties ==
    { Duty("B737-800", E0 + 540, NoEnd, 300, 2),
      Duty("B737-800", E0 + 720, NoEnd, 300, 2) }

\* every way the individual evaluations of a list can end: each one as the
\* store decides (outcomeSets[i] for the i-th crew id), or with a failed read
Evaluations(outcomeSets) ==
    LET n == Len(outcomeSets)
        all == UNION { outcomeSets[i] : i \in 1..n } \cup {ReadFailure}
    IN { e \in [1..n -> all] : \A i \in 1..n : e[i] \in outcomeSets[i] \cup {ReadFailure} }

ValidateCrewPool(crewIds, proposedDuty) ==
    LET outcomeSets == [i \in 1..Len(crewIds) |->
                           validateAssignmentOutcomes(faaRules, crewIds[i], proposedDuty)]
    IN /\ Idle
       /\ faaRules.loaded
       /\ \E evaluations \in Evaluations(outcomeSets) :
             resp' = [op |-> "validateCrewPool", crewIds |-> crewIds,
                      proposedDuty |-> proposedDuty, evaluations |-> evaluations,
                      results |-> validateCrewPool(crewIds, evaluations)]
       /\ UNCHANGED <<duty_time_records, now, ticks, faaRules, staticRules, dbRules, others>>

\* dbRules holds what the last calculatePay that reached the rules engine
\* loaded
CalculateBulkPay(crewIds, period) ==
    LET outcomeSets == [i \in 1..Len(crewIds) |->
                           { calculatePayOutcome(staticRules, crewIds[i], period[1],
                                                 period[2], now) }]
    IN /\ Idle
       /\ \E evaluations \in Evaluations(outcomeSets) :
             LET set == { i \in 1..Len(crewIds) : evaluations[i].status = "ok" }
                 last == CHOOSE i \in set : \A j \in set : j <= i
             IN /\ resp' = [op |-> "calculateBulkPay", crewIds |-> crewIds,
                            period |-> period, evaluations |-> evaluations,
                            calculations |-> calculateBulkPay(crewIds, evaluations)]
                /\ IF set = {} THEN dbRules' = dbRules
                   ELSE \E readFailed \in BOOLEAN :
                           dbRules' = loadDatabaseRules(
                                          CHOOSE c \in getCrewMember(crewIds[last]) : TRUE,
                                          period[1], readFailed)
       /\ UNCHANGED <<duty_time_records, now, ticks, faaRules, staticRules, others>>

NextBulk ==
    \/ Reply
    \/ \E row \in ExternalRows : ExternalInsert(row)
    \/ \E params \in BulkArgs : HandleUpdateDutyTime(params)
    \/ \E crewIds \in CrewIdLists, proposedDuty \in BulkDuties :
          ValidateCrewPool(crewIds, proposedDuty)
    \/ \E crewIds \in CrewIdLists, period \in PayPeriods :
          CalculateBulkPay(crewIds, period)

SpecBulk == Init /\ [][NextBulk]_vars

\* the positions of the list whose individual evaluation succeeded
Succeeded == { i \in 1..Len(resp.crewIds) : resp.evaluations[i].status = "ok" }

\* the k-th position that succeeded
KthSucceeded(k) ==
    CHOOSE i \in Succeeded : Cardinality({ j \in Succeeded : j <= i }) = k

\* C9: in validateCrewPool and calculateBulkPay, for every list of crew ids
\* and every pattern of per-crew failures, the result holds an entry for
\* exactly the crew members whose individual evaluation succeeded: a failure
\* omits only that entry and every later crew member is still evaluated.
C9_BulkFailureIsolation ==
    /\ resp.op = "validateCrewPool" =>
          /\ DOMAIN resp.results = { resp.crewIds[i] : i \in Succeeded }
          /\ \A i \in Succeeded :
                (\A j \in Succeeded : resp.crewIds[j] = resp.crewIds[i] => j <= i)
                   => resp.results[resp.crewIds[i]] = resp.evaluations[i].result
    /\ resp.op = "calculateBulkPay" =>
          /\ Len(resp.calculations) = Cardinality(Succeeded)
          /\ \A k \in 1..Len(resp.calculations) :
                resp.calculations[k] = resp.evaluations[KthSucceeded(k)].result

\* the first crew member of the list failed, the second one was evaluated
\* and is the only entry of the result
C9_FailureThenSuccess ==
    /\ resp.op = "validateCrewPool"
    /\ Len(resp.crewIds) = 2
    /\ resp.evaluations[1].status = "error"
    /\ resp.evaluations[2].status = "ok"
    /\ DOMAIN resp.results = { resp.crewIds[2] }
    /\ resp.crewIds[1] # resp.crewIds[2]

---------------------------------------------------------------------------
(* The compliance run over all pilots *)

MaxSnapshots == 3        \* rows of faa_part117_compliance

\* duty recorded before a run: 100h and 95h in the 28-day window, 1000h in
\* the 365-day window
AllCrewArgs ==
    { Args("u1", BaseDay, E0 - 480, E0, 6000, 480, "false"),
      Args("E4", BaseDay, E0 - 480, E0, 5700, 480, "false"),
      Args("u4", BaseDay - 1, Ts(BaseDay - 1, 8, 0), Ts(BaseDay - 1, 17, 0),
           60000, 0, "omitted") }

\* the checkDate argument; NoEnd stands for "not given"
AllCrewDates == { NoEnd, Ts(BaseDay + 29, 12, 0) }

CheckAllCrew(checkDate) ==
    LET date == IF checkDate = NoEnd THEN now ELSE checkDate
        pilots == bySeniority(getAllCrewMembers("PILOT", "ACTIVE"))
    IN /\ Idle
       /\ Len(faa_part117_compliance) + Len(pilots) <= MaxSnapshots
       /\ \/ \E failures \in [1..Len(pilots) -> {"none", "check", "record"}] :
                LET run == checkAllCrew(pilots, date, failures)
                IN /\ resp' = [op |-> "checkAllCrew", status |-> "ok",
                               date |-> date,
                               pilots |-> [i \in 1..Len(pilots) |-> pilots[i].crew_id],
                               failures |-> failures,
                               rowsBefore |-> Len(faa_part117_compliance),
                               alerts |-> run.alerts]
                   /\ faa_part117_compliance' = faa_part117_compliance \o run.recorded
          \/ /\ resp' = [op |-> "checkAllCrew", status |-> "error",
                         error |-> "ReadFailure"]
             /\ UNCHANGED faa_part117_compliance
       /\ UNCHANGED <<duty_time_records, now, ticks, faaRules, staticRules, dbRules,
                      payLog, calls>>

NextAllCrew ==
    \/ Reply
    \/ \E params \in AllCrewArgs : HandleUpdateDutyTime(params)
    \/ \E checkDate \in AllCrewDates : CheckAllCrew(checkDate)

SpecAllCrew == Init /\ [][NextAllCrew]_vars

\* a compliance run that returned its alerts
RanAllCrew == resp.op = "checkAllCrew" /\ resp.status = "ok"

\* the pilots of the pending run for which a snapshot was to be written
Recorded == { i \in 1..Len(resp.pilots) : resp.failures[i] = "none" }

KthRecorded(k) ==
    CHOOSE i \in Recorded : Cardinality({ j \in Recorded : j <= i }) = k

\* the alerts of the pending run that carry crewId
AlertsOf(crewId) == SelectSeq(resp.alerts, LAMBDA a : a.crew_id = crewId)

\* C11: checkAllCrew checks every ACTIVE pilot.  For each pilot whose check
\* and snapshot did not fail it adds one snapshot row for the check date with
\* rest_compliance = (h28 < 100h) and fdp_compliance = (h365 < 1000h); a
\* pilot whose check failed is skipped, and the graded alerts of every other
\* pilot, before or after the failing one, are returned.
C11_CheckAllCrew ==
    RanAllCrew =>
        LET n == Len(resp.pilots)
            rows == SubSeq(faa_part117_compliance, resp.rowsBefore + 1,
                           Len(faa_part117_compliance))
        IN /\ { resp.pilots[i] : i \in 1..n }
                = { c.crew_id : c \in { m \in crew_members :
                                          m.crew_type = "PILOT" /\ m.status = "ACTIVE" } }
           /\ \A i, j \in 1..n : resp.pilots[i] = resp.pilots[j] => i = j
           /\ Len(rows) = Cardinality(Recorded)
           /\ \A k \in 1..Len(rows) :
                 LET crewId == resp.pilots[KthRecorded(k)]
                 IN /\ rows[k].crew_id = crewId
                    /\ rows[k].check_date = DateOf(resp.date)
                    /\ rows[k].rest_compliance
                          <=> (Minutes28(crewId, resp.date) < 100 * 60)
                    /\ rows[k].fdp_compliance
                          <=> (Minutes365(crewId, resp.date) < 1000 * 60)
           /\ \A i \in 1..n :
                 LET got == AlertsOf(resp.pilots[i])
                     want == IF resp.failures[i] = "check" THEN << >>
                             ELSE GradedAlerts(Minutes28(resp.pilots[i], resp.date),
                                               28, 100)
                                  \o GradedAlerts(Minutes365(resp.pilots[i], resp.date),
                                                  365, 1000)
                 IN /\ Len(got) = Len(want)
                    /\ \A k \in 1..Len(want) :
                          /\ got[k].alert.window = want[k].window
                          /\ got[k].alert.alert_type = want[k].alert_type
                          /\ got[k].alert.severity = want[k].severity
           /\ \A k \in 1..Len(resp.alerts) :
                 \E i \in 1..n : resp.alerts[k].crew_id = resp.pilots[i]

\* the check of the first pilot failed; the second pilot, at 1000h in the
\* 365-day window, was checked, its alert returned and its snapshot written
C11_SecondPilotAfterFailure ==
    /\ RanAllCrew
    /\ Len(resp.pilots) = 2
    /\ resp.failures[1] = "check"
    /\ resp.failures[2] = "none"
    /\ Len(resp.alerts) >= 1
    /\ resp.alerts[1].crew_id = resp.pilots[2]
    /\ resp.alerts[1].alert.severity = "CRITICAL"
    /\ Len(faa_part117_compliance) = resp.rowsBefore + 1
    /\ faa_part117_compliance[resp.rowsBefore + 1].crew_id = resp.pilots[2]
    /\ ~ faa_part117_compliance[resp.rowsBefore + 1].fdp_compliance
    /\ faa_part117_compliance[resp.rowsBefore + 1].rest_compliance

---------------------------------------------------------------------------
(* Repeated pay calculations: the caller keeps the PayCalculation it was
   handed and asks again *)

\* duty recorded before pay is calculated
RepeatArgs ==
    { Args("u1", BaseDay, E0 - 480, E0, 300, 0, "omitted"),
      Args("E2", BaseDay, E0 - 480, E0, 6000, 480, "false") }

RepeatIdentifiers == {"u1", "u2", "E1", "X9"}

\* the pending response is handed to the caller, who keeps a PayCalculation
\* together with the arguments and the duty history it was computed from
ReplyKept ==
    /\ ~Idle
    /\ payLog' = IF resp.op = "calculatePay" /\ resp.outcome.status = "ok"
                 THEN [op |-> "calculatePay", crewId |-> resp.crewId,
                       period |-> resp.period, clock |-> resp.clock,
                       records |-> duty_time_records,
                       result |-> resp.outcome.result]
                 ELSE payLog
    /\ resp' = NoResponse
    /\ UNCHANGED <<duty_time_records, now, ticks, faaRules, staticRules, dbRules,
                   faa_part117_compliance, calls>>

NextRepeat ==
    \/ ReplyKept
    \/ Tick
    \/ \E params \in RepeatArgs : HandleUpdateDutyTime(params)
    \/ \E crewId \in RepeatIdentifiers, period \in PayPeriods :
          CalculatePay(crewId, period, "none")

SpecRepeat == InitPay /\ [][NextRepeat]_vars

\* calculatePay returned for the arguments and the duty history of the
\* PayCalculation the caller kept
CalculatedAgain ==
    /\ resp.op = "calculatePay"
    /\ resp.outcome.status = "ok"
    /\ payLog.op = "calculatePay"
    /\ payLog.crewId = resp.crewId
    /\ payLog.period = resp.period
    /\ payLog.records = duty_time_records

---------------------------------------------------------------------------
(* The single-item operations, with unknown identifiers, rejected reads and
   rule tables that did not load *)

\* duty recorded before the operations are called
SingleArgs ==
    { Args("u1", BaseDay, E0 - 480, E0, 300, 0, "omitted"),
      Args("E2", BaseDay, E0 - 480, E0, 6000, 480, "false") }

\* a crew id, an employee number, a text and a UUID that resolve to nobody
SingleIdentifiers == {"u1", "E2", "X9", "u9"}

SingleDuties ==
    { Duty("B737-800", E0 + 720, NoEnd, 300, 2),
      Duty("B737-800", Ts(BaseDay + 1, 8, 0), NoEnd, 630, 2) }

\* the reads of the store validateAssignment makes; "none" for no failure
ValidatorReads ==
    {"none", "getCrewMember", "getAircraftTypeRatings", "getMedicalCertificate",
     "getTrainingRecords", "getDutyTimeRecords", "calculateRollingHours"}

\* the reads of the store the compliance checker makes
ComplianceReads == {"none", "getAllCrewMembers", "calculateRollingHours"}

\* either static table may have failed to load when the engines were built
InitSingle ==
    /\ duty_time_records = << >>
    /\ now = Ts(BaseDay, 23, 0)
    /\ ticks = 0
    /\ faaRules \in {FAARules(FullFDPTable), NoFAARules}
    /\ staticRules \in {PayRules, NoPayRules}
    /\ dbRules = << >>
    /\ resp = NoResponse
    /\ faa_part117_compliance = << >>
    /\ payLog = NoLog
    /\ calls = NoCalls

NextSingle ==
    \/ Reply
    \/ \E params \in SingleArgs : HandleUpdateDutyTime(params)
    \/ \E crewId \in SingleIdentifiers, proposedDuty \in SingleDuties,
             failedRead \in ValidatorReads :
          ValidateAssignment(crewId, proposedDuty, failedRead)
    \/ \E crewId \in SingleIdentifiers, period \in PayPeriods, failedRead \in PayReads :
          CalculatePay(crewId, period, failedRead)
    \/ \E crewId \in SingleIdentifiers, failedRead \in PayReads :
          EstimatePay(crewId, 3840, 240, CHOOSE period \in PayPeriods : TRUE, failedRead)
    \/ \E crewId \in SingleIdentifiers, failedRead \in ComplianceReads :
          CheckCrewCompliance(crewId, Ts(BaseDay, 12, 0), failedRead)
    \/ \E crewId \in SingleIdentifiers, failedRead \in ComplianceReads :
          IsClearForAssignment(crewId, 300, failedRead)

SpecSingle == InitSingle /\ [][NextSingle]_vars

\* a pending response of an operation that reports its outcome
EngineCall == resp.op \in {"validateAssignment", "calculatePay", "estimatePay"}

\* C14: validateAssignment, calculatePay and estimatePay called with an
\* identifier that resolves to no crew record fail and return no legality
\* or pay result; the error is the not-found error whenever the lookup
\* itself was answered by the store.
C14_NotFound ==
    (EngineCall /\ getCrewMember(resp.crewId) = {}) =>
        /\ resp.outcome.status = "error"
        /\ "result" \notin DOMAIN resp.outcome
        /\ resp.failedRead = "none" => resp.outcome.error = "Crew member not found"

\* calculatePay for a text that is no UUID and resolves to nobody: not found
C14_UnknownEmployeeNumber ==
    /\ resp.op = "calculatePay"
    /\ resp.crewId = "X9"
    /\ resp.failedRead = "none"
    /\ resp.outcome.status = "error"
    /\ resp.outcome.error = "Crew member not found"

\* C15: in validateAssignment, calculatePay, estimatePay, checkCrewCompliance
\* and isClearForAssignment a failure of any store read the operation makes,
\* the read of the dynamic pay rules included, is propagated to the caller:
\* no normal result is returned after a read failed.
C15_ReadFailurePropagates ==
    /\ (EngineCall /\ resp.failedRead # "none") => resp.outcome.status = "error"
    /\ (/\ resp.op \in {"checkCrewCompliance", "isClearForAssignment"}
        /\ resp.failedRead # "none") => resp.status = "error"

\* C16: no legality verdict and no pay calculation is ever produced by an
\* engine whose static rule table (FAA table, pay rule table) did not load.
C16_NoResultWithoutStaticRules ==
    /\ (resp.op = "validateAssignment" /\ resp.outcome.status = "ok")
          => faaRules.loaded
    /\ (resp.op \in {"calculatePay", "estimatePay"} /\ resp.outcome.status = "ok")
          => staticRules.loaded


-----------------------------------------------------------------------------
\* Pay calls interleaved on one PayCalculator.  A call runs from one await
\* to the next without interruption; at an await (a read of the store)
\* another call may run.  calls holds, for every call in flight, the await
\* it is suspended at and its local variables.  The one field the calls
\* share is RulesEngine.dbRules.  The store and the clock stay as they are
\* while a call is in flight, and every read succeeds.

Callers == {"a", "b"}

ConcurrentArgs ==
    { Args("u1", BaseDay, E0 - 480, E0, 300, 0, "omitted"),
      Args("u4", BaseDay, E0 - 781, E0, 5730, 781, "true") }

ConcurrentIdentifiers == {"u1", "u4", "E3", "X9"}

ConcurrentPeriod == <<Ts(BaseDay - 1, 0, 0), Ts(BaseDay + 29, 0, 0)>>

ConcurrentEstimates == { <<4500, 6000>> }

Suspend(c, call) ==
    calls' = [d \in DOMAIN calls \cup {c} |-> IF d = c THEN call ELSE calls[d]]

\* calculatePay / estimatePay is entered and suspends at getCrewMember
StartPay(c, op, crewId, estimate) ==
    /\ Idle
    /\ c \notin DOMAIN calls
    /\ Suspend(c, [pc |-> "getCrewMember", op |-> op, crewId |-> crewId,
                   estimate |-> estimate])
    /\ UNCHANGED <<duty_time_records, now, ticks, faaRules, staticRules, dbRules,
                   resp, faa_part117_compliance, payLog>>

\* getCrewMember resolves: not found is thrown; estimatePay goes on to
\* applyAllRules, calculatePay to getDutyTimeRecords
CrewMemberRead(c) ==
    /\ c \in DOMAIN calls
    /\ calls[c].pc = "getCrewMember"
    /\ LET found == getCrewMember(calls[c].crewId)
       IN Suspend(c,
            IF found = {}
            THEN [calls[c] EXCEPT !.pc = "done"]
                 @@ [outcome |-> [status |-> "error", error |-> "Crew member not found"]]
            ELSE [calls[c] EXCEPT
                    !.pc = IF calls[c].op = "calculatePay" THEN "getDutyTimeRecords"
                           ELSE "getPayCalculationRules"]
                 @@ [crewMember |-> CHOOSE m \in found : TRUE])
    /\ UNCHANGED <<duty_time_records, now, ticks, faaRules, staticRules, dbRules,
                   resp, faa_part117_compliance, payLog>>

\* getDutyTimeRecords resolves; applyAllRules is entered and suspends in
\* loadDatabaseRules
DutyRecordsRead(c) ==
    /\ c \in DOMAIN calls
    /\ calls[c].pc = "getDutyTimeRecords"
    /\ Suspend(c,
         IF ~IsUUID(calls[c].crewId)
         THEN [calls[c] EXCEPT !.pc = "done"]
              @@ [outcome |-> [status |-> "error", error |-> "QueryError"]]
         ELSE [calls[c] EXCEPT !.pc = "getPayCalculationRules"]
              @@ [dutyRecords |-> getDutyTimeRecords(calls[c].crewId,
                                      ConcurrentPeriod[1], ConcurrentPeriod[2])])
    /\ UNCHANGED <<duty_time_records, now, ticks, faaRules, staticRules, dbRules,
                   resp, faa_part117_compliance, payLog>>

\* getPayCalculationRules resolves: loadDatabaseRules assigns this.dbRules
\* and returns to applyAllRules, which resumes in a later turn
DatabaseRulesLoaded(c) ==
    /\ c \in DOMAIN calls
    /\ calls[c].pc = "getPayCalculationRules"
    /\ dbRules' = loadDatabaseRules(calls[c].crewMember, ConcurrentPeriod[1], FALSE)
    /\ Suspend(c, [calls[c] EXCEPT !.pc = "applyAllRules"])
    /\ UNCHANGED <<duty_time_records, now, ticks, faaRules, staticRules,
                   resp, faa_part117_compliance, payLog>>

\* applyAllRules resumes, the components are calculated and the call
\* builds its PayCalculation
RulesApplied(c) ==
    /\ c \in DOMAIN calls
    /\ calls[c].pc = "applyAllRules"
    /\ Suspend(c,
         [calls[c] EXCEPT !.pc = "done"]
         @@ [outcome |->
              [status |-> "ok",
               result |-> IF calls[c].op = "calculatePay"
                          THEN calculatePayFromRecords(staticRules, calls[c].crewMember,
                                   calls[c].dutyRecords, ConcurrentPeriod[1],
                                   ConcurrentPeriod[2], now)
                          ELSE estimatePay(staticRules, calls[c].crewMember,
                                   calls[c].estimate[1], calls[c].estimate[2],
                                   ConcurrentPeriod[1], ConcurrentPeriod[2], now)]])
    /\ UNCHANGED <<duty_time_records, now, ticks, faaRules, staticRules, dbRules,
                   resp, faa_part117_compliance, payLog>>

\* the caller takes the outcome
Returned(c) ==
    /\ c \in DOMAIN calls
    /\ calls[c].pc = "done"
    /\ calls' = IF DOMAIN calls = {c} THEN NoCalls
                ELSE [d \in DOMAIN calls \ {c} |-> calls[d]]
    /\ UNCHANGED <<duty_time_records, now, ticks, faaRules, staticRules, dbRules,
                   resp, faa_part117_compliance, payLog>>

NextConcurrent ==
    \/ Reply
    \/ calls = NoCalls /\ \E params \in ConcurrentArgs : HandleUpdateDutyTime(params)
    \/ \E c \in Callers, op \in {"calculatePay", "estimatePay"},
          crewId \in ConcurrentIdentifiers, estimate \in ConcurrentEstimates :
          StartPay(c, op, crewId, estimate)
    \/ \E c \in Callers : CrewMemberRead(c)
    \/ \E c \in Callers : DutyRecordsRead(c)
    \/ \E c \in Callers : DatabaseRulesLoaded(c)
    \/ \E c \in Callers : RulesApplied(c)
    \/ \E c \in Callers : Returned(c)

SpecConcurrent == InitPay /\ [][NextConcurrent]_vars

\* the outcome of the call when it runs alone on the same store
AloneOutcome(call) ==
    IF call.op = "calculatePay"
    THEN calculatePayOutcome(staticRules, call.crewId, ConcurrentPeriod[1],
                             ConcurrentPeriod[2], now)
    ELSE estimatePayOutcome(staticRules, call.crewId, call.estimate[1],
                            call.estimate[2], ConcurrentPeriod[1],
                            ConcurrentPeriod[2], now)

\* C18: a calculatePay or estimatePay call that was interleaved with
\* another call on the same PayCalculator returns exactly the outcome it
\* returns when run alone, whatever the interleaving.
C18_InterleavedAsAlone ==
    \A c \in DOMAIN calls :
        calls[c].pc = "done" => calls[c].outcome = AloneOutcome(calls[c])

\* call "b" has loaded its rules and finished while call "a", for a crew
\* member of another position, was suspended between its own load of
\* dbRules and the calculation of its components
C18_FinishedWhileOtherSuspended ==
    /\ DOMAIN calls = Callers
    /\ calls["a"].pc = "applyAllRules" /\ calls["a"].crewId = "u1"
    /\ calls["b"].pc = "done" /\ calls["b"].crewId = "u4"
    /\ calls["b"].op = "calculatePay" /\ calls["b"].outcome.status = "ok"
    /\ calls["b"].outcome.result.summary.total_flight_hours > 0
    /\ dbRules = getPayCalculationRules("PILOT", "FIRST_OFFICER", ConcurrentPeriod[1])
    /\ dbRules # getPayCalculationRules("PILOT", "CAPTAIN", ConcurrentPeriod[1])


-----------------------------------------------------------------------------
\* update-duty-time alone: what a sequence of calls leaves in the store.
\* UpdateDutyTimeSchema accepts any two date-times and any two minute
\* counts that are not negative.

StoreArgs ==
    { Args("u1", BaseDay, E0 - 480, E0, 300, 480, "omitted"),
      Args("E1", BaseDay, E0 - 480, E0, 300, 0, "omitted"),
      Args("u1", BaseDay, E0 - 480, E0, 480, 300, "omitted"),
      Args("u1", BaseDay - 1, Ts(BaseDay - 1, 17, 0), Ts(BaseDay - 1, 8, 0),
           0, 0, "omitted"),
      Args("E4", BaseDay, E0, E0, 0, 0, "false"),
      Args("u4", BaseDay - 1, Ts(BaseDay - 1, 8, 0), Ts(BaseDay - 1, 17, 0),
           600, 0, "omitted"),
      Args("X9", BaseDay, E0 - 480, E0, 300, 480, "omitted") }

NextStore ==
    \/ Reply
    \/ Tick
    \/ \E params \in StoreArgs : HandleUpdateDutyTime(params)

SpecStore == Init /\ [][NextStore]_vars

\* C19: after any sequence of successful update-duty-time calls every
\* stored DutyTimeRecord has duty_end_utc >= duty_start_utc and
\* flight_time_minutes <= duty_time_minutes.
C19_StoredRecordsConsistent ==
    \A i \in 1..Len(duty_time_records) :
        /\ duty_time_records[i].duty_end_utc >= duty_time_records[i].duty_start_utc
        /\ duty_time_records[i].flight_time_minutes
               <= duty_time_records[i].duty_time_minutes


-----------------------------------------------------------------------------
\* The duty the rest check measures from, judged on the response of
\* validateAssignment under Spec.

\* C20: the rest check measures from the latest end among the duties of the
\* history that ended before the proposed start; a duty that ends at or
\* after the proposed start is never used, so hours_since_rest is never
\* negative.  (Histories in which every duty has an end time.)
C20_RestFromLastEndedDuty ==
    (resp.op = "validateAssignment" /\ resp.outcome.status = "ok") =>
        LET crewMember == CHOOSE c \in getCrewMember(resp.crewId) : TRUE
            history == dutyHistoryOf(crewMember.crew_id, resp.proposedDuty)
            start == resp.proposedDuty.duty_start_utc
            ends == { history[i].duty_end_utc : i \in 1..Len(history) }
            ended == { e \in ends : e < start }
            rest == resp.outcome.result.rest_compliance
        IN NoEnd \notin ends =>
              /\ rest.hours_since_rest >= 0
              /\ ended # {} =>
                    rest.hours_since_rest =
                        differenceInHours(start,
                                          CHOOSE e \in ended : \A f \in ended : f <= e)


-----------------------------------------------------------------------------
\* Consecutive duty days, judged on the response of validateAssignment
\* under Spec.

\* the number of calendar days in a row, ending on lastDay, that are in days
RunEndingOn(lastDay, days) ==
    CHOOSE n \in 0..Cardinality(days) :
        /\ \A k \in 0..(n - 1) : (lastDay - k) \in days
        /\ (lastDay - n) \notin days

\* C21: consecutive_duty_days is the length of the run of consecutive
\* calendar duty days that ends on the day before the proposed date: 0 when
\* there was no duty on the preceding day, and several records of one day
\* count as one day.
C21_RunEndsDayBefore ==
    (resp.op = "validateAssignment" /\ resp.outcome.status = "ok") =>
        LET crewMember == CHOOSE c \in getCrewMember(resp.crewId) : TRUE
            history == dutyHistoryOf(crewMember.crew_id, resp.proposedDuty)
            days == { history[i].duty_date : i \in 1..Len(history) }
            proposedDate == DateOf(resp.proposedDuty.duty_start_utc)
        IN resp.outcome.result.duty_limits.consecutive_duty_days
               = RunEndingOn(proposedDate - 1, days)


-----------------------------------------------------------------------------
\* Recommendations, judged on the response of validateAssignment under Spec.

HasLine(recommendations, text) ==
    \E i \in 1..Len(recommendations) : recommendations[i].text = text

\* C22: the recommendations hold one line for each unmet condition
\* (qualification issues, rest, FDP) and an "approaching limit" warning for
\* each window whose projected total is at or above 90% of its ceiling;
\* the line "legal and qualified" appears only when is_legal is true.
C22_Recommendations ==
    (resp.op = "validateAssignment" /\ resp.outcome.status = "ok") =>
        LET result == resp.outcome.result
            lines == result.recommendations
            limits == result.duty_limits
            fdpCompliance == checkFDPLimits(faaRules, resp.proposedDuty)
        IN /\ HasLine(lines, "Address N qualification issue(s) before assignment")
                  <=> Len(result.qualification_issues) > 0
           /\ HasLine(lines, "Crew needs N more hours of rest before assignment")
                  <=> ~result.rest_compliance.is_compliant
           /\ HasLine(lines, "Reduce FDP by N hours or adjust start time")
                  <=> ~fdpCompliance.is_compliant
           /\ HasLine(lines, "Approaching 28-day limit")
                  <=> limits.rolling_28_day_hours * 10
                          >= Hours(limits.rolling_28_day_limit) * 9
           /\ HasLine(lines, "Approaching 365-day limit")
                  <=> limits.rolling_365_day_hours * 10
                          >= Hours(limits.rolling_365_day_limit) * 9
           /\ HasLine(lines, "Crew member is legal and qualified for this assignment")
                  => result.is_legal


-----------------------------------------------------------------------------
\* Period totals, judged on the duty records a calculatePay call read under
\* SpecPay.

\* capped duty minutes of the flagged records among the first n
RECURSIVE FlaggedMinutes(_, _)
FlaggedMinutes(records, n) ==
    IF n = 0 THEN 0
    ELSE FlaggedMinutes(records, n - 1)
         + (IF ~records[n].wocl_crossing THEN 0
            ELSE IF records[n].duty_time_minutes < 240
            THEN records[n].duty_time_minutes ELSE 240)

\* C23: night minutes are the sum over WOCL-flagged records of
\* min(duty_minutes, 240) and never exceed 240 minutes times the number of
\* distinct flagged duty days; the duty-day count is the number of distinct
\* calendar dates among the records.
C23_NightCappedPerDay ==
    (resp.op = "calculatePay" /\ resp.outcome.status = "ok") =>
        LET records == getDutyTimeRecords(resp.crewId, resp.period[1], resp.period[2])
            totals == calculateTotals(records)
            flaggedDays == { records[i].duty_date :
                               i \in { j \in 1..Len(records) : records[j].wocl_crossing } }
        IN /\ totals.nightHours = FlaggedMinutes(records, Len(records))
           /\ totals.nightHours <= 240 * Cardinality(flaggedDays)
           /\ totals.dutyDays
                  = Cardinality({ d \in (BaseDay - 2)..(BaseDay + 2) :
                                    \E i \in 1..Len(records) : records[i].duty_date = d })


-----------------------------------------------------------------------------
\* The audit list, judged on the PayCalculation of calculatePay and
\* estimatePay under SpecPay.

\* the components of the breakdown, in the order they are calculated
BreakdownItems(breakdown) ==
    << breakdown.base_pay, breakdown.per_diem >> \o breakdown.premium_pay
        \o << breakdown.overtime_pay, breakdown.guarantee_pay >>

\* C24: applied_rules lists exactly the computed components (base, per
\* diem, each premium, overtime, guarantee) whose amount is > 0, each with
\* its amount, and the listed amounts add up to total_compensation.
C24_AuditListMatchesTotal ==
    PaidOk =>
        LET result == resp.outcome.result
            paid == SelectSeq(BreakdownItems(result.breakdown), LAMBDA c : c.amount > 0)
            listed == result.applied_rules
        IN /\ Len(listed) = Len(paid)
           /\ \A i \in 1..Len(listed) :
                 /\ listed[i].rule_name = paid[i].type
                 /\ listed[i].amount = paid[i].amount
           /\ SumAmounts(listed) = result.summary.total_compensation

\* a calculation with base pay, per diem, a premium and overtime listed,
\* and the guarantee of amount 0 left out of the list
C24_FourListedOneLeftOut ==
    /\ PaidOk
    /\ resp.op = "calculatePay"
    /\ Len(resp.outcome.result.applied_rules) = 4
    /\ Len(resp.outcome.result.breakdown.premium_pay) = 1
    /\ resp.outcome.result.breakdown.overtime_pay.amount > 0
    /\ resp.outcome.result.breakdown.guarantee_pay.amount = 0


-----------------------------------------------------------------------------
\* One record per duty day, judged on the store under SpecStore.

\* C25: after any sequence of update-duty-time calls there is at most one
\* duty record per crew member per duty date, so a duty day recorded twice
\* enters the rolling totals once.
C25_OneRecordPerDutyDay ==
    \A i, j \in 1..Len(duty_time_records) :
        (/\ duty_time_records[i].crew_id = duty_time_records[j].crew_id
         /\ duty_time_records[i].duty_date = duty_time_records[j].duty_date) => i = j


-----------------------------------------------------------------------------
\* The compliance check of update-duty-time, judged on its response under
\* Spec: the store still is the one the call left.

\* C26: after update-duty-time stored a record, compliance_check.is_compliant
\* is true exactly when the rolling 28-day and 365-day totals of the crew
\* member, with the newly recorded flight time counted once, are within
\* 100h and 1000h.
C26_CompliantIffWithinLimits ==
    (resp.op = "updateDutyTime" /\ resp.status = "ok") =>
        LET rolling == calculateRollingHours(resp.crew_id, resp.clock)
            \* a record dated after today is not yet in the rolling totals
            recorded == IF resp.params.duty_date > DateOf(resp.clock)
                        THEN resp.params.flight_time_minutes ELSE 0
        IN resp.compliance_check.is_compliant
               <=> /\ rolling.rolling_28_day + recorded <= Hours(limit28Day)
                   /\ rolling.rolling_365_day + recorded <= Hours(limit365Day)


-----------------------------------------------------------------------------
\* A compliance run in steps.  checkAllCrew awaits checkCrewCompliance and
\* then recordCompliance for each pilot; each of the two reads the rolling
\* hours of the pilot on its own, and another request (update-duty-time)
\* may be served while the run is suspended between them.  calls holds the
\* run in flight: the pilots still to do, the alerts so far and the number
\* of snapshot rows the store held when the run began.

RunInFlight == "checkAllCrew" \in DOMAIN calls

TheRun == calls["checkAllCrew"]

\* checkAllCrew is entered: the date is fixed and the pilots are read
AllCrewStarted(checkDate) ==
    LET pilots == bySeniority(getAllCrewMembers("PILOT", "ACTIVE"))
    IN /\ calls = NoCalls
       /\ Len(faa_part117_compliance) + Len(pilots) <= MaxSnapshots
       /\ calls' = [c \in {"checkAllCrew"} |->
                       [pc |-> IF Len(pilots) = 0 THEN "done" ELSE "check",
                        date |-> IF checkDate = NoEnd THEN now ELSE checkDate,
                        pilots |-> pilots, alerts |-> << >>,
                        rowsBefore |-> Len(faa_part117_compliance)]]
       /\ UNCHANGED <<duty_time_records, now, ticks, faaRules, staticRules, dbRules,
                      resp, faa_part117_compliance, payLog>>

\* checkCrewCompliance of the next pilot resolves; its alerts are pushed
PilotChecked ==
    /\ RunInFlight
    /\ TheRun.pc = "check"
    /\ calls' = [calls EXCEPT !["checkAllCrew"] =
                    [@ EXCEPT !.pc = "record",
                              !.alerts = @ \o pilotAlertsOf(Head(TheRun.pilots),
                                                            TheRun.date)]]
    /\ UNCHANGED <<duty_time_records, now, ticks, faaRules, staticRules, dbRules,
                   resp, faa_part117_compliance, payLog>>

\* recordCompliance of the same pilot resolves; the snapshot is inserted
PilotRecorded ==
    /\ RunInFlight
    /\ TheRun.pc = "record"
    /\ faa_part117_compliance' =
           Append(faa_part117_compliance,
                  recordCompliance(Head(TheRun.pilots).crew_id, TheRun.date))
    /\ calls' = [calls EXCEPT !["checkAllCrew"] =
                    [@ EXCEPT !.pc = IF Len(TheRun.pilots) = 1 THEN "done" ELSE "check",
                              !.pilots = Tail(@)]]
    /\ UNCHANGED <<duty_time_records, now, ticks, faaRules, staticRules, dbRules,
                   resp, payLog>>

\* the run returns its alerts
AllCrewReturned ==
    /\ RunInFlight
    /\ TheRun.pc = "done"
    /\ calls' = NoCalls
    /\ UNCHANGED <<duty_time_records, now, ticks, faaRules, staticRules, dbRules,
                   resp, faa_part117_compliance, payLog>>

NextAllCrewSteps ==
    \/ Reply
    \/ \E params \in AllCrewArgs : HandleUpdateDutyTime(params)
    \/ \E checkDate \in AllCrewDates : AllCrewStarted(checkDate)
    \/ PilotChecked
    \/ PilotRecorded
    \/ AllCrewReturned

SpecAllCrewSteps == Init /\ [][NextAllCrewSteps]_vars

\* a LIMIT_EXCEEDED alert of the run for the pilot and the window
Exceeded(crewId, window) ==
    \E i \in 1..Len(TheRun.alerts) :
        /\ TheRun.alerts[i].crew_id = crewId
        /\ TheRun.alerts[i].alert.alert_type = "LIMIT_EXCEEDED"
        /\ TheRun.alerts[i].alert.window = window

\* C27: the snapshot recorded for a pilot agrees with the alerts returned
\* for that pilot, also when duty records are written between the two
\* steps: rest_compliance is false exactly when a 28-day LIMIT_EXCEEDED
\* alert was returned, fdp_compliance is false exactly when a 365-day
\* LIMIT_EXCEEDED alert was returned.
C27_SnapshotAgreesWithAlerts ==
    RunInFlight =>
        \A k \in (TheRun.rowsBefore + 1)..Len(faa_part117_compliance) :
            LET row == faa_part117_compliance[k]
            IN /\ ~row.rest_compliance <=> Exceeded(row.crew_id, 28)
               /\ ~row.fdp_compliance <=> Exceeded(row.crew_id, 365)


-----------------------------------------------------------------------------
\* The two checks of the compliance monitor on the same history and date,
\* judged on the response of isClearForAssignment under Spec.

\* C28: whenever checkCrewCompliance reports a LIMIT_EXCEEDED alert for a
\* crew member, isClearForAssignment on the same history and date returns
\* is_clear = false for that crew member, whatever proposedHours >= 0.
C28_ExceededIsNotClear ==
    (resp.op = "isClearForAssignment" /\ resp.status = "ok") =>
        LET alerts == checkCrewCompliance(resp.crewId, resp.clock)
        IN (\E i \in 1..Len(alerts) : alerts[i].alert_type = "LIMIT_EXCEEDED")
               => ~resp.result.is_clear


-----------------------------------------------------------------------------
(* tools/get-qualified-crew-pool.ts *)

\* the ACTIVE crew of the position with a CURRENT rating on the aircraft
\* type, by seniority
getCrewByAircraftType(aircraftType, position) ==
    bySeniority({ cm \in crew_members :
                    /\ cm.status = "ACTIVE"
                    /\ cm.position = position
                    /\ \E atr \in aircraft_type_ratings :
                          /\ atr.crew_id = cm.crew_id
                          /\ atr.aircraft_type = aircraftType
                          /\ atr.currency_status = "CURRENT" })

\* no duty_date given
NoDate == -1

\* the assignment the handler assumes: 08:00, a 5 hour flight, 2 segments
poolDutyAssignment(aircraftType, dutyDate) ==
    Duty(aircraftType, Ts(dutyDate, 8, 0), NoEnd, 300, 2)

\* the entry of one crew member; evaluation is what validateAssignment did
\* ("skipped" when the check was not asked for or no date was given)
crewInfoOf(crew, evaluation) ==
    IF evaluation.status = "skipped"
    THEN [crew_id |-> crew.crew_id,
          availability |-> [is_available |-> TRUE, rest_compliant |-> TRUE,
                            duty_limit_compliant |-> TRUE,
                            note |-> "Legality check not performed"],
          suitability_score |-> 100]
    ELSE IF evaluation.status = "error"
    THEN [crew_id |-> crew.crew_id,
          availability |-> [is_available |-> TRUE, rest_compliant |-> TRUE,
                            duty_limit_compliant |-> TRUE,
                            note |-> "Legality check failed - assume available"],
          suitability_score |-> 50]
    ELSE
      LET legalityResult == evaluation.result
          limits == legalityResult.duty_limits
          used == limits.rolling_28_day_hours * 10
          score == IF ~legalityResult.is_legal THEN 0
                   ELSE 100
                        - (IF Len(legalityResult.qualification_issues) > 0 THEN 20 ELSE 0)
                        - (IF ~legalityResult.rest_compliance.is_compliant THEN 30 ELSE 0)
                        - (IF used > Hours(limits.rolling_28_day_limit) * 9 THEN 20
                           ELSE IF used > Hours(limits.rolling_28_day_limit) * 8 THEN 10
                           ELSE 0)
      IN [crew_id |-> crew.crew_id,
          availability |->
              [is_available |-> legalityResult.is_legal,
               rest_compliant |-> legalityResult.rest_compliance.is_compliant,
               duty_limit_compliant |->
                   limits.rolling_28_day_hours < Hours(limits.rolling_28_day_limit),
               note |-> ""],
          suitability_score |-> IF score < 0 THEN 0 ELSE score]

\* crewPool.sort((a, b) => b.suitability_score - a.suitability_score),
\* a stable sort
RECURSIVE InsertByScore(_, _)
InsertByScore(x, sorted) ==
    IF sorted = << >> THEN << x >>
    ELSE IF Head(sorted).suitability_score >= x.suitability_score
    THEN << Head(sorted) >> \o InsertByScore(x, Tail(sorted))
    ELSE << x >> \o sorted

RECURSIVE sortBySuitability(_)
sortBySuitability(crewPool) ==
    IF crewPool = << >> THEN << >>
    ELSE InsertByScore(crewPool[Len(crewPool)],
                       sortBySuitability(SubSeq(crewPool, 1, Len(crewPool) - 1)))

\* the reads of validateAssignment that may be rejected for a pool member
PoolReads == {"none", "getDutyTimeRecords"}

\* what the legality check of one pool member can do: the validator is
\* constructed inside the try block, so a rule table that cannot be loaded
\* fails the check like a rejected read does
poolEvaluations(rules, crew, dutyAssignment, failedRead) ==
    IF ~rules.loaded THEN { [status |-> "error", error |-> "Could not load FAA rules"] }
    ELSE validateAssignmentAttempt(rules, crew.crew_id, dutyAssignment, failedRead)

PoolTypes == {"B737-800", "A320"}
PoolPositions == {"CAPTAIN", "FIRST_OFFICER"}
PoolDates == {NoDate, BaseDay, BaseDay + 1}

PoolArgs ==
    { Args("u1", BaseDay, E0 - 480, E0, 300, 0, "omitted"),
      Args("u1", BaseDay, E0 - 780, E0, 5700, 780, "false"),
      Args("E1", BaseDay + 1, Ts(BaseDay + 1, 1, 0), Ts(BaseDay + 1, 3, 0),
           120, 0, "omitted") }

HandleGetQualifiedCrewPool(aircraftType, position, dutyDate, checkLegality) ==
    LET qualifiedCrew == getCrewByAircraftType(aircraftType, position)
        n == Len(qualifiedCrew)
        checked == checkLegality /\ dutyDate # NoDate
        dutyAssignment == poolDutyAssignment(aircraftType, dutyDate)
        outcomesOf(i, failedRead) ==
            IF ~checked THEN { [status |-> "skipped"] }
            ELSE poolEvaluations(faaRules, qualifiedCrew[i], dutyAssignment, failedRead)
    IN /\ Idle
       /\ \E failures \in [1..n -> PoolReads] :
          \E evaluations \in [1..n -> UNION { outcomesOf(i, failures[i]) : i \in 1..n }] :
             LET crewPool == sortBySuitability(
                                 [i \in 1..n |-> crewInfoOf(qualifiedCrew[i], evaluations[i])])
             IN /\ \A i \in 1..n :
                      /\ evaluations[i] \in outcomesOf(i, failures[i])
                      /\ \/ failures[i] = "none"
                         \/ checked /\ evaluations[i] = ReadFailure
                /\ resp' = [op |-> "getQualifiedCrewPool", status |-> "ok",
                            aircraft_type |-> aircraftType, position |-> position,
                            duty_date |-> dutyDate, check_legality |-> checkLegality,
                            evaluations |->
                                [i \in 1..n |-> [crew_id |-> qualifiedCrew[i].crew_id,
                                                 evaluation |-> evaluations[i]]],
                            qualified_crew |-> crewPool,
                            total_qualified |-> n,
                            total_available |->
                                Len(SelectSeq(crewPool,
                                              LAMBDA c : c.availability.is_available))]
       /\ UNCHANGED <<duty_time_records, now, ticks, faaRules, staticRules, dbRules, others>>

NextPool ==
    \/ Reply
    \/ \E row \in ExternalRows : ExternalInsert(row)
    \/ \E params \in PoolArgs : HandleUpdateDutyTime(params)
    \/ \E aircraftType \in PoolTypes, position \in PoolPositions,
          dutyDate \in PoolDates, checkLegality \in BOOLEAN :
          HandleGetQualifiedCrewPool(aircraftType, position, dutyDate, checkLegality)

SpecPool == Init /\ [][NextPool]_vars

\* C29: with check_legality requested and a duty date given, a crew member
\* is reported with availability.is_available = true only if
\* validateAssignment returned is_legal = true for that crew member.
C29_AvailableOnlyIfLegal ==
    (/\ resp.op = "getQualifiedCrewPool"
     /\ resp.check_legality
     /\ resp.duty_date # NoDate) =>
        \A i \in 1..Len(resp.qualified_crew) :
            resp.qualified_crew[i].availability.is_available =>
                \E j \in 1..Len(resp.evaluations) :
                    /\ resp.evaluations[j].crew_id = resp.qualified_crew[i].crew_id
                    /\ resp.evaluations[j].evaluation.status = "ok"
                    /\ resp.evaluations[j].evaluation.result.is_legal


-----------------------------------------------------------------------------
\* The identifier of a pay calculation, judged on the response of
\* calculatePay under SpecPay.

\* C30: calculatePay returns the same period totals and component amounts
\* for a crew member whether the caller passes the employee number or the
\* crew_id: the duty records that enter the totals are those of the
\* resolved crew member in both cases.
C30_SameByEitherIdentifier ==
    (/\ resp.op = "calculatePay"
     /\ resp.failedRead = "none"
     /\ getCrewMember(resp.crewId) # {}) =>
        LET crewMember == CHOOSE c \in getCrewMember(resp.crewId) : TRUE
            byCrewId == calculatePayOutcome(staticRules, crewMember.crew_id,
                                            resp.period[1], resp.period[2], resp.clock)
        IN /\ resp.outcome.status = byCrewId.status
           /\ resp.outcome.status = "ok" =>
                 /\ resp.outcome.result.summary = byCrewId.result.summary
                 /\ resp.outcome.result.breakdown = byCrewId.result.breakdown

===========================================================================
